---------------------------- MODULE Spec2Model ----------------------------
(***************************************************************************)
(* A model of NeoXtractor's mesh viewer core:                              *)
(*   - core/mesh_converter/formats/gltf.py      convert(mesh)              *)
(*   - gui/widgets/mesh_viewer/mesh_data.py     ProcessedMeshData.__init__ *)
(*   - gui/widgets/mesh_viewer/camera.py        Camera                     *)
(*   - gui/widgets/mesh_viewer/viewer_widget.py MeshViewer                 *)
(*                                                                         *)
(* Conventions.  Python lists are sequences (1-based here, 0-based there:  *)
(* stored index VALUES such as face indices, bone parents and bufferView   *)
(* numbers keep their 0-based Python value).  Python's None is the empty   *)
(* sequence None and a present optional value v is Some(v) = <<v>>.        *)
(* Floats are modelled by the integers they take on the bounded inputs;    *)
(* camera angles are kept in half degrees (AngleScale) because orbit()     *)
(* moves by dx * 0.5.                                                      *)
(***************************************************************************)
EXTENDS Integers, Sequences, FiniteSets, TLC

VARIABLES
    mesh,        \* the MeshData handed to convert() / ProcessedMeshData()
    gltf,        \* outcome of convert(mesh): None before the call
    processed,   \* outcome of ProcessedMeshData(mesh): None before the call
    reprocessed, \* outcome of post-processing the processed mesh once more
    camera,      \* the Camera object's attributes
    lastOp,      \* the camera operation that ran last, with its arguments
    prevCamera,  \* the camera attributes before that operation
    viewer,      \* the MeshViewer object's attributes
    gpu,         \* every QRhiBuffer created for a mesh: id -> its record
    widgetRhi,   \* what QRhiWidget.rhi() currently returns
    heap,        \* number of ProcessedMeshData objects constructed so far
    call,        \* trace of the last call: its arguments and what it left
    disk         \* the file at the path Save As writes: None when absent

vars == <<mesh, gltf, processed, reprocessed, camera, lastOp, prevCamera,
          viewer, gpu, widgetRhi, heap, call, disk>>

None == <<>>
Some(x) == <<x>>

\* ------------------------------------------------------------------------
\* Bounds of the model
\* ------------------------------------------------------------------------
MaxVerts == 2
MaxFaces == 2
MaxBones == 2

\* ------------------------------------------------------------------------
\* Generic list helpers
\* ------------------------------------------------------------------------
RECURSIVE Flatten(_)
\* [x for item in seq for x in item]
Flatten(seq) == IF seq = <<>> THEN <<>> ELSE Head(seq) \o Flatten(Tail(seq))

\* list[:4]
Take4(s) == IF Len(s) <= 4 THEN s ELSE SubSeq(s, 1, 4)

\* while len(s) < 4: s.append(fill)
Pad4(s, fill) == s \o [k \in 1..(IF Len(s) < 4 THEN 4 - Len(s) ELSE 0) |-> fill]

SeqsUpTo(S, n) == UNION {[1..k -> S] : k \in 0..n}

Min(S) == CHOOSE x \in S : \A y \in S : x <= y
Max(S) == CHOOSE x \in S : \A y \in S : y <= x
Abs(x) == IF x < 0 THEN -x ELSE x


\* ------------------------------------------------------------------------
\* struct.pack and base64 (gltf.py lines 2-3), as they act on the blob
\* ------------------------------------------------------------------------
RECURSIVE Log2Floor(_)
Log2Floor(n) == IF n <= 1 THEN 0 ELSE 1 + Log2Floor(n \div 2)

RECURSIVE Pow2(_)
Pow2(e) == IF e = 0 THEN 1 ELSE 2 * Pow2(e - 1)

\* struct.pack("f", v): the 4 little-endian bytes of the IEEE-754 binary32
\* value of v, for an integer-valued v with |v| < 2^24
F32Bytes(v) ==
    IF v = 0 THEN <<0, 0, 0, 0>>
    ELSE LET a    == Abs(v)
             e    == Log2Floor(a)
             mant == (a - Pow2(e)) * Pow2(23 - e)
             bexp == e + 127
             sign == IF v < 0 THEN 1 ELSE 0
         IN  << mant % 256,
                (mant \div 256) % 256,
                (bexp % 2) * 128 + (mant \div 65536),
                sign * 128 + (bexp \div 2) >>

\* struct.pack(f"{n}f", *values)
PackF(values) == Flatten([k \in 1..Len(values) |-> F32Bytes(values[k])])

\* struct.pack(f"{n}H", *values) raises struct.error outside 0..65535
CanPackH_Unchecked(values) == TRUE
CanPackH(values) == \A k \in 1..Len(values) : values[k] \in 0..65535
PackH(values) ==
    Flatten([k \in 1..Len(values) |-> <<values[k] % 256, values[k] \div 256>>])

\* struct.pack(f"{n}B", *values) raises struct.error outside 0..255
CanPackB(values) == \A k \in 1..Len(values) : values[k] \in 0..255
PackB(values) == values

\* base64.b64encode: sextets 0..63 of the standard alphabet, 64 for '='
B64Pad == 64
B64Encode(bytes) ==
    LET n == Len(bytes)
        byte(k) == IF k <= n THEN bytes[k] ELSE 0
    IN  [i \in 1..(4 * ((n + 2) \div 3)) |->
            LET g  == (i - 1) \div 4
                j  == (i - 1) % 4
                b1 == byte(3 * g + 1)
                b2 == byte(3 * g + 2)
                b3 == byte(3 * g + 3)
            IN  IF j >= 2 /\ 3 * g + j > n THEN B64Pad
                ELSE CASE j = 0 -> b1 \div 4
                       [] j = 1 -> (b1 % 4) * 16 + (b2 \div 16)
                       [] j = 2 -> (b2 % 16) * 4 + (b3 \div 64)
                       [] j = 3 -> b3 % 64]

\* base64.b64decode, what a reader of the data URI does
B64Decode(chars) ==
    LET g    == Len(chars) \div 4
        pads == Cardinality({i \in 1..Len(chars) : chars[i] = B64Pad})
        c(i) == IF chars[i] = B64Pad THEN 0 ELSE chars[i]
    IN  [k \in 1..(3 * g - pads) |->
            LET q  == (k - 1) \div 3
                r  == (k - 1) % 3
                c0 == c(4 * q + 1)
                c1 == c(4 * q + 2)
                c2 == c(4 * q + 3)
                c3 == c(4 * q + 4)
            IN  CASE r = 0 -> c0 * 4 + (c1 \div 16)
                  [] r = 1 -> (c1 % 16) * 16 + (c2 \div 4)
                  [] r = 2 -> (c2 % 4) * 64 + c3]

\* ------------------------------------------------------------------------
\* 4x4 matrices on the bounded inputs: row-major, translation in row 4
\* ------------------------------------------------------------------------
Eye4 == <<<<1, 0, 0, 0>>, <<0, 1, 0, 0>>, <<0, 0, 1, 0>>, <<0, 0, 0, 1>>>>
Zero4 == [r \in 1..4 |-> [c \in 1..4 |-> 0]]
Translation(t) ==
    <<<<1, 0, 0, 0>>, <<0, 1, 0, 0>>, <<0, 0, 1, 0>>, <<t[1], t[2], t[3], 1>>>>
IsTranslation(m) == m = Translation(<<m[4][1], m[4][2], m[4][3]>>)

\* np.linalg.inv(matrix): Some(inverse), or None where it raises LinAlgError
\* (a singular matrix).  Defined on the matrices of the model's inputs.
LinalgInv(m) ==
    IF IsTranslation(m)
    THEN Some(Translation(<<-m[4][1], -m[4][2], -m[4][3]>>))
    ELSE None

\* ------------------------------------------------------------------------
\* convert(mesh)                     core/mesh_converter/formats/gltf.py
\* ------------------------------------------------------------------------
\* The dict literal convert starts from: it has no "skins" entry
gltf_data_keys ==
    {"asset", "meshes", "accessors", "bufferViews", "buffers", "nodes",
     "scenes", "scene"}

positions(m) == m.position
normals(m) == IF m.has_normals THEN m.normal ELSE <<>>
uvs(m) == IF m.has_uvs THEN m.uv ELSE <<>>
indices(m) == m.face

\* if not positions or not indices: raise ValueError
InvalidMesh_PositionsOnly(m) == positions(m) = <<>>
InvalidMesh(m) == positions(m) = <<>> \/ indices(m) = <<>>

vertex_buffer(m) == Flatten(positions(m))
normal_buffer(m) == Flatten(normals(m))
uv_buffer(m) == Flatten(uvs(m))
index_buffer(m) == Flatten(indices(m))

\* joints / vertex_weights of vertex i (1-based) after slicing and padding
joints(m, i) ==
    IF i <= Len(m.vertex_bone) THEN Pad4(Take4(m.vertex_bone[i]), 0)
    ELSE <<0, 0, 0, 0>>
vertex_weights(m, i) ==
    IF i <= Len(m.vertex_bone)
    THEN IF i <= Len(m.vertex_weight)
         THEN Pad4(Take4(m.vertex_weight[i]), 0)
         ELSE <<1, 0, 0, 0>>
    ELSE <<1, 0, 0, 0>>

joint_buffer(m) ==
    IF m.has_bones
    THEN Flatten([i \in 1..Len(positions(m)) |-> Take4(joints(m, i))])
    ELSE <<>>
weight_buffer(m) ==
    IF m.has_bones
    THEN Flatten([i \in 1..Len(positions(m)) |-> Take4(vertex_weights(m, i))])
    ELSE <<>>

\* inv_matrix.flatten().tolist(), or the identity when inversion fails
inv_or_identity(matrix) ==
    IF LinalgInv(matrix) = None THEN Flatten(Eye4)
    ELSE Flatten(LinalgInv(matrix)[1])
inverse_bind_matrices(m) ==
    IF ~m.has_bones THEN <<>>
    ELSE IF m.bone_matrix # <<>>
         THEN Flatten([k \in 1..Len(m.bone_matrix) |->
                          inv_or_identity(m.bone_matrix[k])])
         ELSE Flatten([k \in 1..Len(m.bone_name) |-> Flatten(Eye4)])

\* struct.pack raises struct.error on an index or joint it cannot hold
PackRaises(m) == ~CanPackH(index_buffer(m)) \/ ~CanPackB(joint_buffer(m))

\* binary_data after each section has been appended
binary_after_vertex(m) == PackF(vertex_buffer(m))
binary_after_normal(m) ==
    binary_after_vertex(m) \o
    (IF normal_buffer(m) # <<>> THEN PackF(normal_buffer(m)) ELSE <<>>)
binary_after_uv(m) ==
    binary_after_normal(m) \o
    (IF uv_buffer(m) # <<>> THEN PackF(uv_buffer(m)) ELSE <<>>)
binary_after_index(m) == binary_after_uv(m) \o PackH(index_buffer(m))
binary_after_joint(m) ==
    binary_after_index(m) \o
    (IF joint_buffer(m) # <<>> THEN PackB(joint_buffer(m)) ELSE <<>>)
binary_after_weight(m) ==
    binary_after_joint(m) \o
    (IF weight_buffer(m) # <<>> THEN PackF(weight_buffer(m)) ELSE <<>>)
binary_data(m) ==
    binary_after_weight(m) \o
    (IF inverse_bind_matrices(m) # <<>>
     THEN PackF(inverse_bind_matrices(m)) ELSE <<>>)

vertex_bytes(m) == Len(vertex_buffer(m)) * 4
normal_offset(m) == Len(binary_after_vertex(m))
normal_bytes(m) == Len(normal_buffer(m)) * 4
uv_offset_AfterPositions(m) == Len(binary_after_vertex(m))
uv_offset(m) == Len(binary_after_normal(m))
uv_bytes(m) == Len(uv_buffer(m)) * 4
index_offset(m) == Len(binary_after_uv(m))
index_bytes_x4(m) == Len(index_buffer(m)) * 4
index_bytes(m) == Len(index_buffer(m)) * 2
joint_offset(m) == Len(binary_after_index(m))
joint_bytes(m) == IF joint_buffer(m) # <<>> THEN Len(joint_buffer(m)) ELSE 0
weight_offset(m) == Len(binary_after_joint(m))
weight_bytes(m) ==
    IF weight_buffer(m) # <<>> THEN Len(weight_buffer(m)) * 4 ELSE 0
ibm_offset(m) == Len(binary_after_weight(m))
ibm_bytes(m) ==
    IF inverse_bind_matrices(m) # <<>>
    THEN Len(inverse_bind_matrices(m)) * 4 ELSE 0

\* data_uri, kept as its fixed prefix and its base64 payload
data_uri(m) ==
    [prefix |-> "data:application/octet-stream;base64,",
     payload |-> B64Encode(binary_data(m))]
buffers(m) == <<[uri |-> data_uri(m), byteLength |-> Len(binary_data(m))]>>

ARRAY_BUFFER == 34962
ELEMENT_ARRAY_BUFFER == 34963
FLOAT == 5126
UNSIGNED_SHORT == 5123
UNSIGNED_BYTE == 5121

BufferView(offset, length, target) ==
    [buffer |-> 0, byteOffset |-> offset, byteLength |-> length,
     target |-> target]

\* The running counter buffer_view_index gives each present section its number
Count(b) == IF b THEN 1 ELSE 0
position_buffer_view(m) == 0
normal_buffer_view(m) == IF normal_bytes(m) > 0 THEN Some(1) ELSE None
uv_buffer_view(m) ==
    IF uv_bytes(m) > 0 THEN Some(1 + Count(normal_bytes(m) > 0)) ELSE None
index_buffer_view(m) == 1 + Count(normal_bytes(m) > 0) + Count(uv_bytes(m) > 0)
joint_buffer_view(m) ==
    IF joint_bytes(m) > 0 THEN Some(index_buffer_view(m) + 1) ELSE None
weight_buffer_view(m) ==
    IF weight_bytes(m) > 0
    THEN Some(index_buffer_view(m) + 1 + Count(joint_bytes(m) > 0))
    ELSE None
ibm_buffer_view(m) ==
    IF ibm_bytes(m) > 0
    THEN Some(index_buffer_view(m) + 1 + Count(joint_bytes(m) > 0)
              + Count(weight_bytes(m) > 0))
    ELSE None

bufferViews(m) ==
    <<BufferView(0, vertex_bytes(m), ARRAY_BUFFER)>>
    \o (IF normal_bytes(m) > 0
        THEN <<BufferView(normal_offset(m), normal_bytes(m), ARRAY_BUFFER)>>
        ELSE <<>>)
    \o (IF uv_bytes(m) > 0
        THEN <<BufferView(uv_offset(m), uv_bytes(m), ARRAY_BUFFER)>>
        ELSE <<>>)
    \o <<BufferView(index_offset(m), index_bytes(m), ELEMENT_ARRAY_BUFFER)>>
    \o (IF joint_bytes(m) > 0
        THEN <<BufferView(joint_offset(m), joint_bytes(m), ARRAY_BUFFER)>>
        ELSE <<>>)
    \o (IF weight_bytes(m) > 0
        THEN <<BufferView(weight_offset(m), weight_bytes(m), ARRAY_BUFFER)>>
        ELSE <<>>)
    \o (IF ibm_bytes(m) > 0
        THEN <<[buffer |-> 0, byteOffset |-> ibm_offset(m),
                byteLength |-> ibm_bytes(m)]>>
        ELSE <<>>)

\* zip(*positions): one tuple per component every position has
min_position_FirstVertex(m) == positions(m)[1]
min_position(m) ==
    [k \in 1..Min({Len(p) : p \in {positions(m)[i] : i \in 1..Len(positions(m))}})
        |-> Min({positions(m)[i][k] : i \in 1..Len(positions(m))})]
max_position(m) ==
    [k \in 1..Min({Len(p) : p \in {positions(m)[i] : i \in 1..Len(positions(m))}})
        |-> Max({positions(m)[i][k] : i \in 1..Len(positions(m))})]

Accessor(view, ctype, count, type) ==
    [bufferView |-> view, componentType |-> ctype, count |-> count,
     type |-> type]

\* The running counter accessor_index numbers the accessors as they are added
position_accessor(m) == 0
normal_accessor(m) == IF normal_buffer_view(m) # None THEN Some(1) ELSE None
uv_accessor(m) ==
    IF uv_buffer_view(m) # None
    THEN Some(1 + Count(normal_buffer_view(m) # None)) ELSE None
index_accessor(m) ==
    1 + Count(normal_buffer_view(m) # None) + Count(uv_buffer_view(m) # None)
joint_accessor(m) ==
    IF joint_buffer_view(m) # None THEN Some(index_accessor(m) + 1) ELSE None
weight_accessor(m) ==
    IF weight_buffer_view(m) # None
    THEN Some(index_accessor(m) + 1 + Count(joint_buffer_view(m) # None))
    ELSE None
ibm_accessor(m) ==
    IF ibm_buffer_view(m) # None
    THEN Some(index_accessor(m) + 1 + Count(joint_buffer_view(m) # None)
              + Count(weight_buffer_view(m) # None))
    ELSE None

accessors(m) ==
    <<[bufferView |-> position_buffer_view(m), componentType |-> FLOAT,
       count |-> Len(positions(m)), type |-> "VEC3",
       min |-> min_position(m), max |-> max_position(m)]>>
    \o (IF normal_buffer_view(m) # None
        THEN <<Accessor(normal_buffer_view(m)[1], FLOAT, Len(normals(m)), "VEC3")>>
        ELSE <<>>)
    \o (IF uv_buffer_view(m) # None
        THEN <<Accessor(uv_buffer_view(m)[1], FLOAT, Len(uvs(m)), "VEC2")>>
        ELSE <<>>)
    \o <<Accessor(index_buffer_view(m), UNSIGNED_SHORT, Len(index_buffer(m)),
                  "SCALAR")>>
    \o (IF joint_buffer_view(m) # None
        THEN <<Accessor(joint_buffer_view(m)[1], UNSIGNED_BYTE,
                        Len(joint_buffer(m)) \div 4, "VEC4")>>
        ELSE <<>>)
    \o (IF weight_buffer_view(m) # None
        THEN <<Accessor(weight_buffer_view(m)[1], FLOAT,
                        Len(weight_buffer(m)) \div 4, "VEC4")>>
        ELSE <<>>)
    \o (IF ibm_buffer_view(m) # None
        THEN <<Accessor(ibm_buffer_view(m)[1], FLOAT,
                        Len(inverse_bind_matrices(m)) \div 16, "MAT4")>>
        ELSE <<>>)

Entry(key, opt) == IF opt # None THEN key :> opt[1] ELSE <<>>
attributes(m) ==
    ("POSITION" :> position_accessor(m))
    @@ Entry("NORMAL", normal_accessor(m))
    @@ Entry("TEXCOORD_0", uv_accessor(m))
    @@ Entry("JOINTS_0", joint_accessor(m))
    @@ Entry("WEIGHTS_0", weight_accessor(m))
primitive(m) == [attributes |-> attributes(m), indices |-> index_accessor(m)]
meshes(m) == <<[primitives |-> <<primitive(m)>>]>>

\* children = [j for j, parent in enumerate(bone_hierarchy) if parent == i]
RECURSIVE Ascending(_)
Ascending(S) ==
    IF S = {} THEN <<>> ELSE <<Min(S)>> \o Ascending(S \ {Min(S)})
children(m, i) == Ascending({j \in 0..(Len(m.bone_parent) - 1) :
                                m.bone_parent[j + 1] = i})
bone_node(m, i) ==
    [name |-> m.bone_name[i + 1], translation |-> <<0, 0, 0>>,
     rotation |-> <<0, 0, 0, 1>>, scale |-> <<1, 1, 1>>]
    @@ (IF children(m, i) # <<>> THEN [children |-> children(m, i)] ELSE <<>>)

\* gltf_data["skins"] after the skin has been appended, were the entry there
skins(m) ==
    IF ibm_accessor(m) # None
    THEN <<[joints |-> [k \in 1..Len(m.bone_name) |-> k - 1],
            inverseBindMatrices |-> ibm_accessor(m)[1]]>>
    ELSE <<>>

nodes(m) ==
    IF m.has_bones
    THEN [k \in 1..Len(m.bone_name) |-> bone_node(m, k - 1)]
         \o <<[name |-> "Mesh", mesh |-> 0,
               skin |-> IF skins(m) # <<>> THEN Some(0) ELSE None]>>
    ELSE <<[name |-> "Mesh", mesh |-> 0]>>

scenes(m) ==
    IF m.has_bones THEN <<[nodes |-> <<Len(m.bone_name)>>]>>
    ELSE <<[nodes |-> <<0>>]>>

\* gltf_data["skins"] is read (line 360 or line 369) on every mesh with bones
SkinsKeyError(m) == m.has_bones /\ "skins" \notin gltf_data_keys

\* The document json.dumps serialises: the returned bytes are its JSON text
Document(m) ==
    [asset |-> [version |-> "2.0", generator |-> "NeoX Model Converter"],
     meshes |-> meshes(m), accessors |-> accessors(m),
     bufferViews |-> bufferViews(m), buffers |-> buffers(m),
     nodes |-> nodes(m), scenes |-> scenes(m), scene |-> 0]
    @@ (IF m.has_bones THEN [skins |-> skins(m)] ELSE <<>>)

Raised(exc) == [status |-> exc, doc |-> None]

\* The list object the name `joints` / `vertex_weights` is bound to for vertex
\* i (1-based): the slice [:4] and the list literals are new lists, never the
\* list the mesh holds
joints_object_Alias(m, i) ==
    IF i <= Len(m.vertex_bone) THEN <<"vertex_bone", i>> ELSE <<"new list">>
joints_object(m, i) == <<"new list">>
vertex_weights_object(m, i) == <<"new list">>

\* mesh.vertex_bone / mesh.vertex_weight once the loop of lines 59-75 has
\* run: joints.append(0) and vertex_weights.append(0.0) extend the object the
\* name is bound to
vertex_bone_after(m) ==
    [i \in 1..Len(m.vertex_bone) |->
        IF i <= Len(positions(m)) /\ joints_object(m, i) = <<"vertex_bone", i>>
        THEN Pad4(m.vertex_bone[i], 0) ELSE m.vertex_bone[i]]
vertex_weight_after(m) ==
    [i \in 1..Len(m.vertex_weight) |->
        IF i <= Len(positions(m)) /\ i <= Len(m.vertex_bone)
           /\ vertex_weights_object(m, i) = <<"vertex_weight", i>>
        THEN Pad4(m.vertex_weight[i], 0) ELSE m.vertex_weight[i]]

\* The mesh object after convert(mesh), whether it returned or raised
mesh_after_convert(m) ==
    IF InvalidMesh(m) \/ ~m.has_bones THEN m
    ELSE [m EXCEPT !.vertex_bone = vertex_bone_after(m),
                   !.vertex_weight = vertex_weight_after(m)]

\* gltf_data when convert stops: the dict literal if it raised before line
\* 141, everything up to the bone nodes if line 360 / 369 raised KeyError,
\* the whole document if it returned
gltf_data_at_exit(m) ==
    IF InvalidMesh(m) \/ PackRaises(m)
    THEN [asset |-> [version |-> "2.0", generator |-> "NeoX Model Converter"],
          meshes |-> <<>>, accessors |-> <<>>, bufferViews |-> <<>>,
          buffers |-> <<>>, nodes |-> <<>>, scenes |-> <<[nodes |-> <<0>>]>>,
          scene |-> 0]
    ELSE IF SkinsKeyError(m)
    THEN [asset |-> [version |-> "2.0", generator |-> "NeoX Model Converter"],
          meshes |-> meshes(m), accessors |-> accessors(m),
          bufferViews |-> bufferViews(m), buffers |-> buffers(m),
          nodes |-> [k \in 1..Len(m.bone_name) |-> bone_node(m, k - 1)],
          scenes |-> <<[nodes |-> <<0>>]>>, scene |-> 0]
    ELSE Document(m)

\* binary_data when convert stops, once line 134 has been passed
binary_data_at_exit(m) ==
    IF InvalidMesh(m) \/ PackRaises(m) THEN None ELSE Some(binary_data(m))

\* convert(mesh): the exception it raises, or the document it returns
convert(m) ==
    IF InvalidMesh(m) THEN Raised("ValueError")
    ELSE IF PackRaises(m) THEN Raised("struct.error")
    ELSE IF SkinsKeyError(m) THEN Raised("KeyError")
    ELSE [status |-> "ok", doc |-> Some(Document(m))]

\* ------------------------------------------------------------------------
\* ProcessedMeshData(raw_data)        gui/widgets/mesh_viewer/mesh_data.py
\* ------------------------------------------------------------------------
\* arr[:, 0] = -arr[:, 0]
KeepX(v) == v
FlipX(v) == [k \in 1..Len(v) |-> IF k = 1 THEN -v[k] ELSE v[k]]

\* pos / norm after the X flip (lines 25-28)
flipped_pos(m) == [i \in 1..Len(m.position) |-> FlipX(m.position[i])]
flipped_norm(m) == [i \in 1..Len(m.normal) |-> FlipX(m.normal[i])]

\* np.hstack((pos, norm)): one 6-value record per vertex
vertices(m) ==
    [i \in 1..Len(m.position) |-> flipped_pos(m)[i] \o flipped_norm(m)[i]]

\* face[[1, 0, 2]]
ReorderFace_Rotate(f) == <<f[2], f[3], f[1]>>
ReorderFace(f) == <<f[2], f[1], f[3]>>
reordered_indices(m) == [k \in 1..Len(m.face) |-> ReorderFace(m.face[k])]

\* normal_line_vertices, in thousandths: pos, then pos + norm * 0.008
NormalLineScale == 1000
normal_lines(m) ==
    [j \in 1..(2 * Len(m.position)) |->
        LET i == (j + 1) \div 2 IN
        IF j % 2 = 1
        THEN [k \in 1..3 |-> flipped_pos(m)[i][k] * NormalLineScale]
        ELSE [k \in 1..3 |-> flipped_pos(m)[i][k] * NormalLineScale
                              + flipped_norm(m)[i][k] * 8]]

\* np.asarray(matrix.T)[:3, 3] with X negated: bone i's position (0-based i)
bone_pos(m, i) ==
    FlipX(<<m.bone_matrix[i + 1][4][1], m.bone_matrix[i + 1][4][2],
            m.bone_matrix[i + 1][4][3]>>)
bone_positions(m) == [k \in 1..Len(m.bone_parent) |-> bone_pos(m, k - 1)]

\* Only create a line if the bone has a parent
HasLine_ParentFirst(m, i) ==
    m.bone_parent[i + 1] # -1 /\ m.bone_parent[i + 1] < i
HasLine(m, i) == m.bone_parent[i + 1] # -1
bone_lines(m) ==
    Flatten([k \in 1..Len(m.bone_parent) |->
                IF HasLine(m, k - 1)
                THEN <<bone_pos(m, k - 1), bone_pos(m, m.bone_parent[k])>>
                ELSE <<>>])

\* numpy raises IndexError when a 1-d (empty) array is indexed with [:, 0] or
\* [:, [1, 0, 2]], and a list raises it for a matrix that is not there
BoneIndexError(m) ==
    \E k \in 1..Len(m.bone_parent) :
        \/ k > Len(m.bone_matrix)
        \/ m.bone_parent[k] >= Len(m.bone_matrix)
        \/ m.bone_parent[k] < -Len(m.bone_matrix) /\ m.bone_parent[k] # -1

\* np.array(rows)[:, k]: np.array of an empty list is 1-dimensional, and
\* indexing it with two indices raises IndexError
ColumnIndexRaises_Never(rows) == FALSE
ColumnIndexRaises(rows) == rows = <<>>

\* ProcessedMeshData.__init__: the exception raised, or the object's fields
ProcessedMeshData(m) ==
    IF ColumnIndexRaises(m.position)
    THEN [status |-> "IndexError", data |-> None]
    ELSE IF ColumnIndexRaises(m.normal)
         THEN [status |-> "IndexError", data |-> None]
    ELSE IF Len(m.normal) # Len(m.position)
         THEN [status |-> "ValueError", data |-> None]
    ELSE IF ColumnIndexRaises(m.face)
         THEN [status |-> "IndexError", data |-> None]
    ELSE IF BoneIndexError(m) THEN [status |-> "IndexError", data |-> None]
    ELSE [status |-> "ok",
          data |-> Some([raw_data |-> m,
                         vertices |-> vertices(m),
                         indices |-> reordered_indices(m),
                         normal_lines |-> normal_lines(m),
                         bone_positions |-> bone_positions(m),
                         bone_lines |-> bone_lines(m)])]

\* ------------------------------------------------------------------------
\* The meshes the model feeds to convert and ProcessedMeshData
\* ------------------------------------------------------------------------
Vecs == {<<1, 0, -1>>, <<-2, 3, 0>>}
Norms == {<<0, 0, 1>>, <<-1, 0, 0>>}
FaceSet == {<<0, 1, 0>>, <<1, 0, 1>>, <<0, 65536, 1>>}

NoBones ==
    [has_bones |-> FALSE, vertex_bone |-> <<>>, vertex_weight |-> <<>>,
     bone_name |-> <<>>, bone_parent |-> <<>>, bone_matrix |-> <<>>]

MeshData(pos, hasn, nrm, hasuv, faces, bones) ==
    [position |-> pos, has_normals |-> hasn, normal |-> nrm,
     has_uvs |-> hasuv,
     uv |-> IF hasuv THEN [i \in 1..Len(pos) |-> <<i - 1, 1>>] ELSE <<>>,
     face |-> faces] @@ bones

\* Meshes without bones: every geometry within the bounds
GeometryOf(pos) ==
    {MeshData(pos, x.hasn, x.nrm, hasuv, faces, NoBones) :
        x \in [hasn : {FALSE}, nrm : {<<>>}]
              \cup [hasn : {TRUE}, nrm : [1..Len(pos) -> Norms]],
        hasuv \in BOOLEAN,
        faces \in SeqsUpTo(FaceSet, MaxFaces)}
GeometryMeshes == UNION {GeometryOf(pos) : pos \in SeqsUpTo(Vecs, MaxVerts)}

\* bone_parent arrays that form a forest: -1 or the index of another bone,
\* parents before or after their children
RECURSIVE ReachesRoot(_, _, _)
ReachesRoot(parent, i, fuel) ==
    IF i = -1 THEN TRUE
    ELSE IF fuel = 0 THEN FALSE
    ELSE ReachesRoot(parent, parent[i + 1], fuel - 1)
Forests(B) ==
    {parent \in [1..B -> -1..(B - 1)] :
        \A i \in 0..(B - 1) : ReachesRoot(parent, i, B)}

\* Bind matrices: a distinct translation per bone, or bone 0 singular
BoneMatrixChoices(B) ==
    {[k \in 1..B |-> Translation(<<k, 2 * k, -k>>)],
     [k \in 1..B |-> IF k = 1 THEN Zero4 ELSE Translation(<<k, 2 * k, -k>>)]}

\* vertex_bone / vertex_weight: four entries, too few, too many, a bone index
\* that does not fit a byte, or none
Influences(N) ==
    {[vb |-> [i \in 1..N |-> <<0, 1, 0, 0>>], vw |-> [i \in 1..N |-> <<1, 0, 0, 0>>]],
     [vb |-> [i \in 1..N |-> <<1>>], vw |-> [i \in 1..N |-> <<1>>]],
     [vb |-> [i \in 1..N |-> <<0, 1, 0, 1, 1>>],
      vw |-> [i \in 1..N |-> <<1, 2, 3, 4, 5>>]],
     [vb |-> [i \in 1..N |-> <<0, 256, 0, 0>>],
      vw |-> [i \in 1..N |-> <<1, 0, 0, 0>>]],
     [vb |-> <<>>, vw |-> <<>>]}

BoneNames == <<"bone0", "bone1", "bone2", "bone3", "bone4">>
VecList == <<<<1, 0, -1>>, <<-2, 3, 0>>, <<0, 2, 2>>, <<3, -1, 1>>>>

\* Meshes with bones: a fixed geometry of N vertices, every skeleton of B bones
BoneMeshesOf(N, B) ==
    {MeshData([i \in 1..N |-> VecList[i]], TRUE, [i \in 1..N |-> <<0, 0, 1>>],
              FALSE, <<<<0, 1, 0>>>>,
              [has_bones |-> TRUE, vertex_bone |-> inf.vb,
               vertex_weight |-> inf.vw,
               bone_name |-> [k \in 1..B |-> BoneNames[k]],
               bone_parent |-> parent, bone_matrix |-> mats]) :
        parent \in Forests(B), mats \in BoneMatrixChoices(B),
        inf \in Influences(N)}
BoneMeshes ==
    UNION {BoneMeshesOf(N, B) : N \in 1..MaxVerts, B \in 0..MaxBones}

MeshDomain == GeometryMeshes \cup BoneMeshes

\* ------------------------------------------------------------------------
\* Specifications of the two pure functions: Init draws the mesh, the
\* actions apply the function to it
\* ------------------------------------------------------------------------
CameraIdle == None
ViewerIdle == None

InitConvert ==
    /\ mesh \in MeshDomain
    /\ gltf = None
    /\ processed = None
    /\ reprocessed = None
    /\ camera = CameraIdle
    /\ lastOp = None
    /\ prevCamera = None
    /\ viewer = ViewerIdle
    /\ gpu = <<>>
    /\ widgetRhi = 0
    /\ heap = 0
    /\ call = None
    /\ disk = None

\* out = convert(mesh)
Convert ==
    /\ gltf = None
    /\ gltf' = Some(convert(mesh))
    /\ mesh' = mesh_after_convert(mesh)
    /\ call' = Some([op |-> "convert", mesh |-> mesh,
                     gltf_data |-> gltf_data_at_exit(mesh),
                     binary_data |-> binary_data_at_exit(mesh)])
    /\ UNCHANGED <<processed, reprocessed, camera, lastOp, prevCamera,
                   viewer, gpu, widgetRhi, heap, disk>>

NextConvert == Convert
SpecConvert == InitConvert /\ [][NextConvert]_vars

InitProcess == InitConvert

\* processed = ProcessedMeshData(mesh)
Process ==
    /\ processed = None
    /\ processed' = Some(ProcessedMeshData(mesh))
    /\ UNCHANGED <<mesh, gltf, reprocessed, camera, lastOp, prevCamera,
                   viewer, gpu, widgetRhi, heap, call, disk>>

\* The processed arrays read back as a raw mesh: columns 0..2 of vertices are
\* the positions, columns 3..5 the normals, indices the faces
AsRawMesh(m, data) ==
    [m EXCEPT !.position = [i \in 1..Len(data.vertices) |->
                               SubSeq(data.vertices[i], 1, 3)],
              !.normal = [i \in 1..Len(data.vertices) |->
                               SubSeq(data.vertices[i], 4, 6)],
              !.face = data.indices]

\* reprocessed = ProcessedMeshData(processed read back as a raw mesh)
Reprocess ==
    /\ processed # None
    /\ processed[1].status = "ok"
    /\ reprocessed = None
    /\ reprocessed' =
           Some(ProcessedMeshData(AsRawMesh(mesh, processed[1].data[1])))
    /\ UNCHANGED <<mesh, gltf, processed, camera, lastOp, prevCamera,
                   viewer, gpu, widgetRhi, heap, call, disk>>

NextProcess == Process \/ Reprocess
SpecProcess == InitProcess /\ [][NextProcess]_vars

\* ------------------------------------------------------------------------
\* Claims about convert (checked under SpecConvert)
\* ------------------------------------------------------------------------
Converted == gltf # None
ConvertOk == gltf # None /\ gltf[1].status = "ok"
doc == gltf[1].doc[1]
CountSkins(d) == IF "skins" \in DOMAIN d THEN Len(d.skins) ELSE 0

\* C1: convert on a mesh with bones (B bones, non-empty positions and faces,
\* packable indices) returns a document with exactly one skin whose joints
\* list has length B and a scene root list of length 1; convert on a mesh
\* without bones returns a document with zero skins.
C1_SkinPerBonedMesh ==
    Converted /\ ~InvalidMesh(mesh) /\ ~PackRaises(mesh) =>
        /\ ConvertOk
        /\ mesh.has_bones =>
              /\ CountSkins(doc) = 1
              /\ Len(doc.skins[1].joints) = Len(mesh.bone_name)
              /\ Len(doc.scenes[1].nodes) = 1
        /\ ~mesh.has_bones => CountSkins(doc) = 0

\* C2 as stated: an empty positions list or an empty faces list makes convert
\* raise InvalidMeshError and return no output bytes.
C2_EmptyRaisesInvalidMeshError ==
    Converted /\ (mesh.position = <<>> \/ mesh.face = <<>>) =>
        gltf[1].status = "InvalidMeshError" /\ gltf[1].doc = None

\* C2 amended: an empty positions list or an empty faces list makes convert
\* raise ValueError and return no output bytes.
C2_EmptyRaisesValueError ==
    Converted /\ (mesh.position = <<>> \/ mesh.face = <<>>) =>
        gltf[1].status = "ValueError" /\ gltf[1].doc = None

C2_Witness ==
    Converted /\ mesh.position # <<>> /\ mesh.face = <<>>
    /\ gltf[1].status = "ValueError"

\* Byte size of a glTF component type and component count of an element type
ComponentSize(ctype) ==
    CASE ctype = FLOAT -> 4 [] ctype = UNSIGNED_SHORT -> 2
      [] ctype = UNSIGNED_BYTE -> 1
ComponentCount(type) ==
    CASE type = "SCALAR" -> 1 [] type = "VEC2" -> 2 [] type = "VEC3" -> 3
      [] type = "VEC4" -> 4 [] type = "MAT4" -> 16

\* C3: in every document convert returns, the bufferView each accessor reads
\* has byteLength = count * component size * component count, and its byte
\* range lies inside the blob decoded from the base64 data URI.
C3_AccessorByteLengths ==
    ConvertOk =>
        \A a \in 1..Len(doc.accessors) :
            LET acc  == doc.accessors[a]
                view == doc.bufferViews[acc.bufferView + 1]
                blob == B64Decode(doc.buffers[view.buffer + 1].uri.payload)
            IN  /\ view.byteLength = acc.count * ComponentSize(acc.componentType)
                                               * ComponentCount(acc.type)
                /\ 0 <= view.byteOffset
                /\ view.byteOffset + view.byteLength <= Len(blob)

C3_Witness ==
    ConvertOk /\ Len(doc.accessors) = 4 /\ Len(mesh.face) = 2
    /\ Len(mesh.position) = 2

\* ------------------------------------------------------------------------
\* Claims about ProcessedMeshData (checked under SpecProcess)
\* ------------------------------------------------------------------------
ProcessOk == processed # None /\ processed[1].status = "ok"
pdata == processed[1].data[1]

\* C5: for a raw mesh with N positions and N normals the processed vertices
\* are exactly N records of 6 values, record i being
\* (-x_i, y_i, z_i, -nx_i, ny_i, nz_i): only the X components are negated.
C5_VerticesFlipX ==
    ProcessOk =>
        /\ Len(pdata.vertices) = Len(mesh.position)
        /\ \A i \in 1..Len(mesh.position) :
              LET p == mesh.position[i]
                  n == mesh.normal[i]
                  v == pdata.vertices[i]
              IN  /\ Len(v) = 6
                  /\ v = <<-p[1], p[2], p[3], -n[1], n[2], n[3]>>

C5_Witness ==
    ProcessOk /\ Len(mesh.position) = 2
    /\ mesh.position[2][1] # 0 /\ mesh.normal[2][1] # 0
    /\ mesh.position[1] # mesh.position[2]

\* C6: face (a,b,c) at position k of the source gives (b,a,c) at position k
\* of the processed index buffer; post-processing the processed output once
\* more restores the original positions and faces.
C6_SwapIsInvolution ==
    /\ ProcessOk =>
          /\ Len(pdata.indices) = Len(mesh.face)
          /\ \A k \in 1..Len(mesh.face) :
                pdata.indices[k]
                    = <<mesh.face[k][2], mesh.face[k][1], mesh.face[k][3]>>
    /\ reprocessed # None =>
          /\ reprocessed[1].status = "ok"
          /\ LET again == reprocessed[1].data[1] IN
             /\ [i \in 1..Len(again.vertices) |-> SubSeq(again.vertices[i], 1, 3)]
                    = mesh.position
             /\ again.indices = mesh.face

C6_Witness ==
    /\ reprocessed # None
    /\ Len(mesh.face) = 2
    /\ mesh.face[1][1] # mesh.face[1][2]
    /\ mesh.position[1][1] # 0
    /\ pdata.indices # mesh.face

\* C7: the number of bone lines (child position, parent position pairs)
\* equals the number of bones whose bone_parent is not -1, whatever the
\* order of parents and children in the array; the pair of bone i is
\* (position of i, position of its parent).
BonesWithParent == {k \in 1..Len(mesh.bone_parent) : mesh.bone_parent[k] # -1}
C7_BoneLineCount ==
    ProcessOk =>
        /\ Len(pdata.bone_lines) = 2 * Cardinality(BonesWithParent)
        /\ \A k \in BonesWithParent :
              \E j \in 1..Cardinality(BonesWithParent) :
                  /\ pdata.bone_lines[2 * j - 1] = pdata.bone_positions[k]
                  /\ pdata.bone_lines[2 * j]
                        = pdata.bone_positions[mesh.bone_parent[k] + 1]

C7_Witness ==
    ProcessOk /\ Len(mesh.bone_parent) = 2 /\ mesh.bone_parent[1] = 1
    /\ mesh.bone_parent[2] = -1 /\ Len(pdata.bone_lines) = 2

\* C8 as stated: building a ProcessedMeshData from a raw mesh with empty
\* positions, empty faces or absent normals fails with InvalidMeshError.
RawMeshIncomplete ==
    mesh.position = <<>> \/ mesh.face = <<>> \/ mesh.normal = <<>>
C8_IncompleteRaisesInvalidMeshError ==
    processed # None /\ RawMeshIncomplete =>
        processed[1].status = "InvalidMeshError"

\* C8 amended: building a ProcessedMeshData from a raw mesh with empty
\* positions, empty faces or absent normals fails with IndexError, and no
\* ProcessedMeshData comes out of it.
C8_IncompleteRaisesIndexError ==
    processed # None /\ RawMeshIncomplete =>
        processed[1].status = "IndexError" /\ processed[1].data = None

C8_Witness ==
    /\ processed # None
    /\ mesh.position # <<>> /\ mesh.normal # <<>> /\ mesh.face = <<>>
    /\ processed[1].status = "IndexError"

\* ------------------------------------------------------------------------
\* Camera                                gui/widgets/mesh_viewer/camera.py
\* ------------------------------------------------------------------------
\* Angles are stored in half degrees: orbit() moves them by dx * 0.5
AngleScale == 2
FRONT == 1
RIGHT == 3
TOP == 7

\* Bound on |yaw| (in half degrees) the model lets orbit() reach
YawCap == 360

\* Bound on |x|, |y|, |z| of the position (in world units) the model lets
\* pan() and move() reach
PosCap == 3

\* Fixed point: sines and cosines are kept in units of 1/TrigScale, pan_speed
\* (0.01 * dist) in units of 1/PanSpeedScale, and the x, y, z of the position
\* in units of 1/PosScale, so that a rotated pan delta is added exactly
TrigScale == 100
PanSpeedScale == 100
PosScale == PanSpeedScale * TrigScale * TrigScale

\* QVector4D(x, y, z, w) of world-unit components
QVector4D(x, y, z, w) == <<x * PosScale, y * PosScale, z * PosScale, w>>

\* Camera.__init__
CameraInit ==
    [_pos |-> QVector4D(0, 1, 4, 1), pitch |-> 0, yaw |-> 0, roll |-> 0, dist |-> 5,
     fov_y |-> 45, aspect_ratio |-> <<1, 1>>, perspective |-> TRUE,
     min_dist |-> 5, max_dist |-> 1500]

PyMax(a, b) == IF a >= b THEN a ELSE b
PyMin(a, b) == IF a <= b THEN a ELSE b

\* Camera.dolly(amount)
dolly_NoUpperClamp(c, amount) ==
    [c EXCEPT !.dist = PyMax(c.min_dist, c.dist + amount)]
dolly(c, amount) ==
    [c EXCEPT !.dist = PyMax(c.min_dist, PyMin(c.dist + amount, c.max_dist))]

\* Camera.orbit(dx, dy)
orbit_NoClamp(c, dx, dy) ==
    [c EXCEPT !.perspective = TRUE, !.yaw = c.yaw - dx, !.pitch = c.pitch - dy]
orbit_KeepsPerspective(c, dx, dy) ==
    [c EXCEPT !.yaw = c.yaw - dx,
              !.pitch = PyMax(-89 * AngleScale,
                              PyMin(89 * AngleScale, c.pitch - dy))]
orbit(c, dx, dy) ==
    [c EXCEPT !.perspective = TRUE,
              !.yaw = c.yaw - dx,
              !.pitch = PyMax(-89 * AngleScale,
                              PyMin(89 * AngleScale, c.pitch - dy))]

\* Camera.orthogonal(direct, opposite)
orthogonal_NoReset(c, direct, opposite) ==
    LET base == [c EXCEPT !.perspective = FALSE] IN
    IF direct = FRONT
    THEN [base EXCEPT !.yaw = IF ~opposite THEN 0 ELSE 180 * AngleScale]
    ELSE IF direct = RIGHT
    THEN [base EXCEPT !.yaw = IF ~opposite THEN 90 * AngleScale
                                           ELSE -90 * AngleScale]
    ELSE IF direct = TOP
    THEN [base EXCEPT !.pitch = IF ~opposite THEN -90 * AngleScale
                                             ELSE 90 * AngleScale]
    ELSE base
orthogonal(c, direct, opposite) ==
    LET base == [c EXCEPT !.perspective = FALSE,
                          !.yaw = 0, !.pitch = 0, !.roll = 0] IN
    IF direct = FRONT
    THEN [base EXCEPT !.yaw = IF ~opposite THEN 0 ELSE 180 * AngleScale]
    ELSE IF direct = RIGHT
    THEN [base EXCEPT !.yaw = IF ~opposite THEN 90 * AngleScale
                                           ELSE -90 * AngleScale]
    ELSE IF direct = TOP
    THEN [base EXCEPT !.pitch = IF ~opposite THEN -90 * AngleScale
                                             ELSE 90 * AngleScale]
    ELSE base

\* math.sqrt of a sum of squares, on the perfect squares the model meets
ISqrt(n) == CHOOSE r \in 0..n : r * r <= n /\ (r + 1) * (r + 1) > n

\* Camera.focus(point): a list or tuple of at least 3 components, or anything
\* else (modelled by a shorter tuple)
focus_KeepsDist(c, point) ==
    [c EXCEPT !._pos = IF Len(point) >= 3
                       THEN QVector4D(point[1], point[2], point[3], 1)
                       ELSE QVector4D(0, 0, 0, 1)]
focus(c, point) ==
    LET focus_point == IF Len(point) >= 3
                       THEN QVector4D(point[1], point[2], point[3], 1)
                       ELSE QVector4D(0, 0, 0, 1)
        new_pos == focus_point
    IN  [c EXCEPT !._pos = new_pos,
                  !.dist = ISqrt((new_pos[1] - focus_point[1]) * (new_pos[1] - focus_point[1])
                               + (new_pos[2] - focus_point[2]) * (new_pos[2] - focus_point[2])
                               + (new_pos[3] - focus_point[3]) * (new_pos[3] - focus_point[3]))]

\* The sine of h half degrees in units of 1/TrigScale, as fixed-point
\* arithmetic gives it (Bhaskara's rational form, exact at 0, 30 and 90
\* degrees), and the cosine
SinT(h) ==
    LET r == h % 720
        q == IF r <= 360 THEN r ELSE r - 360
        v == (TrigScale * 4 * q * (360 - q)) \div (162000 - q * (360 - q))
    IN  IF r <= 360 THEN v ELSE -v
CosT(h) == SinT(h + 180)

Mat3Mul(a, b) ==
    [r \in 1..3 |-> [k \in 1..3 |->
        a[r][1] * b[1][k] + a[r][2] * b[2][k] + a[r][3] * b[3][k]]]
Transpose3(a) == [r \in 1..3 |-> [k \in 1..3 |-> a[k][r]]]

\* Camera.rot(): rotate about X by pitch, then Y by yaw, then Z by roll (each
\* QMatrix4x4.rotate multiplies on the right); the 3x3 part, in units of
\* 1/TrigScale^2
rot(c) ==
    LET sp == SinT(c.pitch) cp == CosT(c.pitch)
        sy == SinT(c.yaw)   cy == CosT(c.yaw)
        sr == SinT(c.roll)  cr == CosT(c.roll)
        rx == <<<<TrigScale, 0, 0>>, <<0, cp, -sp>>, <<0, sp, cp>>>>
        ry == <<<<cy, 0, sy>>, <<0, TrigScale, 0>>, <<-sy, 0, cy>>>>
        rz == <<<<cr, -sr, 0>>, <<sr, cr, 0>>, <<0, 0, TrigScale>>>>
        m  == Mat3Mul(Mat3Mul(rx, ry), rz)
    IN  [r \in 1..3 |-> [k \in 1..3 |-> m[r][k] \div TrigScale]]

\* self.rot().inverted()[0].map(v): the inverse of a rotation is its
\* transpose, and it has no translation part to add
rot_inv_map(c, v) ==
    LET inv == Transpose3(rot(c)) IN
    [i \in 1..3 |-> inv[i][1] * v[1] + inv[i][2] * v[2] + inv[i][3] * v[3]]

\* Camera.pan(dx, dy)
pan_FixedSpeed(c, dx, dy) ==
    LET transformed == rot_inv_map(c, <<dx * (-PanSpeedScale), dy * PanSpeedScale, 0>>)
    IN  [c EXCEPT !._pos = <<c._pos[1] + transformed[1],
                            c._pos[2] + transformed[2],
                            c._pos[3] + transformed[3], 1>>]
pan(c, dx, dy) ==
    LET pan_speed   == c.dist
        transformed == rot_inv_map(c, <<dx * (-pan_speed), dy * pan_speed, 0>>)
    IN  [c EXCEPT !._pos = <<c._pos[1] + transformed[1],
                            c._pos[2] + transformed[2],
                            c._pos[3] + transformed[3], 1>>]

\* Camera.move(velocity), velocity a QVector4D of world-unit components
move(c, velocity) ==
    LET vec == rot_inv_map(c, <<velocity[1] * PanSpeedScale,
                                velocity[2] * PanSpeedScale,
                                velocity[3] * PanSpeedScale>>)
    IN  [c EXCEPT !._pos = <<c._pos[1] + vec[1], c._pos[2] + vec[2],
                            c._pos[3] + vec[3], c._pos[4] + velocity[4]>>]

\* Camera.set_aspect_ratio(width, height): the ratio kept as <<width, height>>
set_aspect_ratio(c, width, height) ==
    [c EXCEPT !.aspect_ratio = IF height # 0 THEN <<width, height>> ELSE <<1, 1>>]

DollyAmounts == {-2000, -500, 500, 2000}
OrbitDx == {-180, 180}
OrbitDy == {-400, 100}
FocusPoints == {<<1, 2, 3>>, <<1, 2>>}
Sizes == {<<4, 3>>, <<3, 0>>}
PanDeltas == {<<100, 0>>}
Velocities == {<<5, 0, 0, 0>>}
WithinPosCap(c) ==
    \A k \in 1..3 : Abs(c._pos[k]) <= PosCap * PosScale

InitCamera ==
    /\ camera = CameraInit
    /\ lastOp = None
    /\ prevCamera = None
    /\ mesh = None
    /\ gltf = None
    /\ processed = None
    /\ reprocessed = None
    /\ viewer = ViewerIdle
    /\ gpu = <<>>
    /\ widgetRhi = 0
    /\ heap = 0
    /\ call = None
    /\ disk = None

CameraStep(op, next) ==
    /\ camera' = next
    /\ lastOp' = Some(op)
    /\ prevCamera' = Some(camera)
    /\ UNCHANGED <<mesh, gltf, processed, reprocessed, viewer, gpu, widgetRhi,
                   heap, call, disk>>

Dolly ==
    \E amount \in DollyAmounts :
        CameraStep([op |-> "dolly", amount |-> amount], dolly(camera, amount))

Orbit ==
    \E dx \in OrbitDx, dy \in OrbitDy :
        /\ Abs(camera.yaw - dx) <= YawCap
        /\ CameraStep([op |-> "orbit", dx |-> dx, dy |-> dy],
                      orbit(camera, dx, dy))

Orthogonal ==
    \E direct \in {FRONT, RIGHT, TOP}, opposite \in BOOLEAN :
        CameraStep([op |-> "orthogonal", direct |-> direct,
                    opposite |-> opposite],
                   orthogonal(camera, direct, opposite))

Focus ==
    \E point \in FocusPoints :
        CameraStep([op |-> "focus", point |-> point], focus(camera, point))

SetAspectRatio ==
    \E size \in Sizes :
        CameraStep([op |-> "set_aspect_ratio", width |-> size[1],
                    height |-> size[2]],
                   set_aspect_ratio(camera, size[1], size[2]))

Pan ==
    \E d \in PanDeltas :
        /\ WithinPosCap(pan(camera, d[1], d[2]))
        /\ CameraStep([op |-> "pan", dx |-> d[1], dy |-> d[2]],
                      pan(camera, d[1], d[2]))

Move ==
    \E velocity \in Velocities :
        /\ WithinPosCap(move(camera, velocity))
        /\ CameraStep([op |-> "move", velocity |-> velocity],
                      move(camera, velocity))

NextCamera ==
    Dolly \/ Orbit \/ Orthogonal \/ Focus \/ SetAspectRatio \/ Pan \/ Move
SpecCamera == InitCamera /\ [][NextCamera]_vars

\* pan() and move() on their own: Init draws a camera the operations above
\* can leave (any yaw, pitch within the clamp or at a TOP snap, dist 0 after
\* focus or within the dolly limits), one call is applied to it
PanCameras ==
    {[CameraInit EXCEPT !.yaw = yaw * AngleScale, !.pitch = pitch * AngleScale,
                        !.dist = dist, !.perspective = persp, !._pos = pos] :
        yaw \in {0, 45, 90, -90, 180},
        pitch \in {0, -50, 89, -89, 90, -90},
        dist \in {0, 5, 10, 1500},
        persp \in BOOLEAN,
        pos \in {QVector4D(0, 1, 4, 1), QVector4D(1, 2, 3, 1)}}
PanDeltasWide == {<<100, 0>>, <<0, -100>>, <<-3, 4>>}
VelocitiesWide == {<<0, 0, 1, 0>>, <<2, -1, 0, 0>>}

InitPan ==
    /\ camera \in PanCameras
    /\ lastOp = None
    /\ prevCamera = None
    /\ mesh = None
    /\ gltf = None
    /\ processed = None
    /\ reprocessed = None
    /\ viewer = ViewerIdle
    /\ gpu = <<>>
    /\ widgetRhi = 0
    /\ heap = 0
    /\ call = None
    /\ disk = None

PanOnce ==
    \E d \in PanDeltasWide :
        /\ lastOp = None
        /\ CameraStep([op |-> "pan", dx |-> d[1], dy |-> d[2]],
                      pan(camera, d[1], d[2]))

MoveOnce ==
    \E velocity \in VelocitiesWide :
        /\ lastOp = None
        /\ CameraStep([op |-> "move", velocity |-> velocity],
                      move(camera, velocity))

NextPan == PanOnce \/ MoveOnce
SpecPan == InitPan /\ [][NextPan]_vars

\* ------------------------------------------------------------------------
\* Claims about the camera (checked under SpecCamera)
\* ------------------------------------------------------------------------
Did(op) == lastOp # None /\ lastOp[1].op = op
before == prevCamera[1]
Clamp(x, lo, hi) == IF x < lo THEN lo ELSE IF x > hi THEN hi ELSE x

\* C9: after dolly(amount) the distance is
\* clamp(previous distance + amount, min_dist, max_dist); from distance 5,
\* dolly(2000) leaves 1500, and dolly(-2000) from there leaves 5.
C9_DollyClamps ==
    Did("dolly") =>
        /\ camera.dist = Clamp(before.dist + lastOp[1].amount,
                               before.min_dist, before.max_dist)
        /\ before.dist = 5 /\ lastOp[1].amount = 2000 => camera.dist = 1500
        /\ before.dist = 1500 /\ lastOp[1].amount = -2000 => camera.dist = 5

C9_Witness ==
    Did("dolly") /\ before.dist = 1500 /\ lastOp[1].amount = -2000
    /\ camera.dist = 5

\* C10: after orthogonal(direction, opposite), from any camera state,
\* perspective is false, roll is 0 and (yaw, pitch) in degrees is (0,0) for
\* FRONT, (180,0) for FRONT opposite, (90,0) for RIGHT, (-90,0) for RIGHT
\* opposite, (0,-90) for TOP and (0,90) for TOP opposite.
SnapAngles(direct, opposite) ==
    CASE direct = FRONT /\ ~opposite -> <<0, 0>>
      [] direct = FRONT /\ opposite  -> <<180, 0>>
      [] direct = RIGHT /\ ~opposite -> <<90, 0>>
      [] direct = RIGHT /\ opposite  -> <<-90, 0>>
      [] direct = TOP /\ ~opposite   -> <<0, -90>>
      [] direct = TOP /\ opposite    -> <<0, 90>>
C10_OrthogonalSnaps ==
    Did("orthogonal") =>
        /\ camera.perspective = FALSE
        /\ camera.roll = 0
        /\ <<camera.yaw, camera.pitch>>
              = <<SnapAngles(lastOp[1].direct, lastOp[1].opposite)[1] * AngleScale,
                  SnapAngles(lastOp[1].direct, lastOp[1].opposite)[2] * AngleScale>>

C10_Witness ==
    /\ Did("orthogonal") /\ lastOp[1].direct = TOP /\ lastOp[1].opposite
    /\ before.yaw # 0 /\ before.pitch # 0 /\ before.perspective
    /\ camera.yaw = 0 /\ camera.pitch = 90 * AngleScale

\* ------------------------------------------------------------------------
\* MeshViewer                     gui/widgets/mesh_viewer/viewer_widget.py
\* ------------------------------------------------------------------------
\* Bounds: ProcessedMeshData objects built, and QRhi instances the widget gets
MaxLoads == 3
MaxRhi == 2

\* MeshViewer.__init__: every resource reference starts as None
ViewerInit ==
    [_rhi |-> None,
     _colored_vertices_shaders |-> None, _mesh_shaders |-> None,
     _colored_line_vertices_pipeline |-> None, _mesh_pipeline |-> None,
     _grid_vbuf |-> None, _grid_ubuf |-> None, _grid_srb |-> None,
     _mesh_data |-> None, _mesh_vbuf |-> None, _mesh_ibuf |-> None,
     _mesh_vert_ubuf |-> None, _mesh_frag_ubuf |-> None, _mesh_srb |-> None]

\* A resource made by self._rhi.newBuffer / newGraphicsPipeline / ...
Resource(v) == Some([rhi |-> v._rhi[1]])

\* The ProcessedMeshData objects the viewer references
LiveMeshes(v) == IF v._mesh_data = None THEN {} ELSE {v._mesh_data[1].id}

\* QRhiBuffer.destroy() on buffer number id
Destroy(g, id) == [g EXCEPT ![id].destroyed = TRUE]

\* MeshViewer.unload_mesh(): the viewer and the GPU buffers afterwards
unload_mesh_KeepBuffers(v, g) ==
    IF v._mesh_data = None THEN [viewer |-> v, gpu |-> g]
    ELSE [viewer |-> [v EXCEPT !._mesh_data = None], gpu |-> g]
unload_mesh(v, g) ==
    IF v._mesh_data = None THEN [viewer |-> v, gpu |-> g]
    ELSE LET g1 == IF v._mesh_ibuf # None THEN Destroy(g, v._mesh_ibuf[1]) ELSE g
             g2 == IF v._mesh_vbuf # None THEN Destroy(g1, v._mesh_vbuf[1]) ELSE g1
         IN  [viewer |-> [v EXCEPT !._mesh_ibuf = None, !._mesh_vbuf = None,
                                   !._mesh_data = None],
              gpu |-> g2]

\* MeshViewer.load_mesh(data).  data is a MeshData, or bytes that
\* MeshLoader.load_from_bytes decodes to a MeshData (mesh = Some) or to None.
\* live lists the ProcessedMeshData objects that exist at each point of the
\* call: on entry, after unload_mesh(), while the new object is being
\* constructed, and on exit.
load_mesh_NoUnload(v, g, h, data) ==
    LET u == [viewer |-> v, gpu |-> g]
        built == IF data.mesh = None THEN [status |-> "ValueError", data |-> None]
                 ELSE ProcessedMeshData(data.mesh[1])
        obj == [id |-> h + 1, raw_data |-> data.mesh[1]]
    IN  IF data.kind = "bytes" /\ data.mesh = None
        THEN [viewer |-> u.viewer, gpu |-> u.gpu, heap |-> h,
              raised |-> Some("ValueError"),
              live |-> <<LiveMeshes(v), LiveMeshes(u.viewer), LiveMeshes(u.viewer)>>]
        ELSE IF built.status # "ok"
        THEN [viewer |-> u.viewer, gpu |-> u.gpu, heap |-> h,
              raised |-> Some(built.status),
              live |-> <<LiveMeshes(v), LiveMeshes(u.viewer),
                         LiveMeshes(u.viewer) \cup {h + 1},
                         LiveMeshes(u.viewer)>>]
        ELSE LET w == [u.viewer EXCEPT !._mesh_data = Some(obj)] IN
             [viewer |-> w, gpu |-> u.gpu, heap |-> h + 1,
              raised |-> None,
              live |-> <<LiveMeshes(v), LiveMeshes(u.viewer),
                         LiveMeshes(u.viewer) \cup {h + 1},
                         LiveMeshes(w)>>]

load_mesh_DecodeFirst(v, g, h, data) ==
    LET built == IF data.mesh = None THEN [status |-> "ValueError", data |-> None]
                 ELSE ProcessedMeshData(data.mesh[1])
        u == IF built.status # "ok" THEN [viewer |-> v, gpu |-> g]
             ELSE unload_mesh(v, g)
        w == [u.viewer EXCEPT !._mesh_data
                                 = Some([id |-> h + 1, raw_data |-> data.mesh[1]])]
    IN  IF built.status # "ok"
        THEN [viewer |-> v, gpu |-> g, heap |-> h,
              raised |-> Some(built.status),
              live |-> <<LiveMeshes(v), LiveMeshes(v)>>]
        ELSE [viewer |-> w, gpu |-> u.gpu, heap |-> h + 1, raised |-> None,
              live |-> <<LiveMeshes(v), LiveMeshes(u.viewer), LiveMeshes(w)>>]

load_mesh(v, g, h, data) ==
    LET u == unload_mesh(v, g)
        built == IF data.mesh = None THEN [status |-> "ValueError", data |-> None]
                 ELSE ProcessedMeshData(data.mesh[1])
        obj == [id |-> h + 1, raw_data |-> data.mesh[1]]
    IN  IF data.kind = "bytes" /\ data.mesh = None
        THEN [viewer |-> u.viewer, gpu |-> u.gpu, heap |-> h,
              raised |-> Some("ValueError"),
              live |-> <<LiveMeshes(v), LiveMeshes(u.viewer), LiveMeshes(u.viewer)>>]
        ELSE IF built.status # "ok"
        THEN [viewer |-> u.viewer, gpu |-> u.gpu, heap |-> h,
              raised |-> Some(built.status),
              live |-> <<LiveMeshes(v), LiveMeshes(u.viewer),
                         LiveMeshes(u.viewer) \cup {h + 1},
                         LiveMeshes(u.viewer)>>]
        ELSE LET w == [u.viewer EXCEPT !._mesh_data = Some(obj)] IN
             [viewer |-> w, gpu |-> u.gpu, heap |-> h + 1,
              raised |-> None,
              live |-> <<LiveMeshes(v), LiveMeshes(u.viewer),
                         LiveMeshes(u.viewer) \cup {h + 1},
                         LiveMeshes(w)>>]

\* MeshViewer.initialize(cb), with self.rhi() returning rhi
initialize(v, rhi) ==
    LET v1 == IF v._rhi # Some(rhi) \/ v._rhi = None
              THEN [v EXCEPT !._colored_line_vertices_pipeline = None,
                             !._mesh_pipeline = None,
                             !._rhi = Some(rhi)]
              ELSE v
        v2 == [v1 EXCEPT !._colored_vertices_shaders = Some("loaded"),
                         !._mesh_shaders = Some("loaded")]
        v3 == IF v2._colored_line_vertices_pipeline = None
              THEN [v2 EXCEPT !._grid_vbuf = Resource(v2),
                              !._grid_ubuf = Resource(v2),
                              !._grid_srb = Resource(v2),
                              !._colored_line_vertices_pipeline = Resource(v2)]
              ELSE v2
    IN  IF v3._mesh_pipeline = None
        THEN [v3 EXCEPT !._mesh_vert_ubuf = Resource(v3),
                        !._mesh_frag_ubuf = Resource(v3),
                        !._mesh_srb = Resource(v3),
                        !._mesh_pipeline = Resource(v3)]
        ELSE v3

\* A mesh buffer created by render(): which QRhi made it and which
\* ProcessedMeshData was uploaded into it
MeshBuffer(kind, v) ==
    [kind |-> kind, rhi |-> v._rhi[1], mesh |-> v._mesh_data[1].id,
     destroyed |-> FALSE]

render_NoCreate(v, g) ==
    IF v._rhi = None \/ v._grid_ubuf = None
       \/ v._colored_line_vertices_pipeline = None
    THEN [viewer |-> v, gpu |-> g, returned_early |-> TRUE, draw |-> None]
    ELSE LET create == /\ v._mesh_data # None
                       /\ v._mesh_vert_ubuf # None
                       /\ FALSE
             g1 == IF create
                   THEN g \o <<MeshBuffer("vertex", v), MeshBuffer("index", v)>>
                   ELSE g
             v1 == IF create
                   THEN [v EXCEPT !._mesh_vbuf = Some(Len(g) + 1),
                                  !._mesh_ibuf = Some(Len(g) + 2)]
                   ELSE v
         IN  [viewer |-> v1, gpu |-> g1, returned_early |-> FALSE,
              draw |-> IF v1._mesh_data # None /\ v1._mesh_pipeline # None
                       THEN Some([vbuf |-> v1._mesh_vbuf, ibuf |-> v1._mesh_ibuf,
                                  mesh |-> v1._mesh_data[1].id,
                                  rhi |-> v1._rhi[1]])
                       ELSE None]

\* MeshViewer.render(cb): the viewer and GPU buffers afterwards, and the
\* indexed mesh draw it issued, if any
render(v, g) ==
    IF v._rhi = None \/ v._grid_ubuf = None
       \/ v._colored_line_vertices_pipeline = None
    THEN [viewer |-> v, gpu |-> g, returned_early |-> TRUE, draw |-> None]
    ELSE LET create == /\ v._mesh_data # None
                       /\ v._mesh_vert_ubuf # None
                       /\ (v._mesh_vbuf = None \/ v._mesh_ibuf = None)
             g1 == IF create
                   THEN g \o <<MeshBuffer("vertex", v), MeshBuffer("index", v)>>
                   ELSE g
             v1 == IF create
                   THEN [v EXCEPT !._mesh_vbuf = Some(Len(g) + 1),
                                  !._mesh_ibuf = Some(Len(g) + 2)]
                   ELSE v
         IN  [viewer |-> v1, gpu |-> g1, returned_early |-> FALSE,
              draw |-> IF v1._mesh_data # None /\ v1._mesh_pipeline # None
                       THEN Some([vbuf |-> v1._mesh_vbuf, ibuf |-> v1._mesh_ibuf,
                                  mesh |-> v1._mesh_data[1].id,
                                  rhi |-> v1._rhi[1]])
                       ELSE None]

\* The data load_mesh is called with
MeshA ==
    MeshData(<<<<1, 0, -1>>, <<-2, 3, 0>>>>, TRUE, <<<<0, 0, 1>>, <<-1, 0, 0>>>>,
             FALSE, <<<<0, 1, 0>>>>, NoBones)
MeshB ==
    MeshData(<<<<-2, 3, 0>>>>, TRUE, <<<<0, 0, 1>>>>, TRUE, <<<<0, 0, 0>>>>,
             NoBones)
MeshEmpty == MeshData(<<>>, FALSE, <<>>, FALSE, <<>>, NoBones)
LoadInputs ==
    {[kind |-> "MeshData", mesh |-> Some(m)] : m \in {MeshA, MeshB, MeshEmpty}}
    \cup {[kind |-> "bytes", mesh |-> Some(MeshB)],
          [kind |-> "bytes", mesh |-> None]}

Init ==
    /\ viewer = ViewerInit
    /\ gpu = <<>>
    /\ widgetRhi = 0
    /\ heap = 0
    /\ call = None
    /\ disk = None
    /\ mesh = None
    /\ gltf = None
    /\ processed = None
    /\ reprocessed = None
    /\ camera = CameraIdle
    /\ lastOp = None
    /\ prevCamera = None

Idle == <<mesh, gltf, processed, reprocessed, camera, lastOp, prevCamera,
          disk>>

\* The widget is given a QRhi: when it is first shown, and again when its
\* window or graphics API changes
RhiChange ==
    /\ widgetRhi < MaxRhi
    /\ widgetRhi' = widgetRhi + 1
    /\ call' = Some([op |-> "rhi_change"])
    /\ UNCHANGED <<viewer, gpu, heap>>
    /\ UNCHANGED Idle

\* Qt calls initialize() once the widget has a QRhi
Initialize ==
    /\ widgetRhi # 0
    /\ viewer' = initialize(viewer, widgetRhi)
    /\ call' = Some([op |-> "initialize"])
    /\ UNCHANGED <<gpu, widgetRhi, heap>>
    /\ UNCHANGED Idle

\* Qt calls render() only after initialize() has run for the current QRhi
Render ==
    /\ widgetRhi # 0
    /\ viewer._rhi = Some(widgetRhi)
    /\ LET r == render(viewer, gpu) IN
       /\ viewer' = r.viewer
       /\ gpu' = r.gpu
       /\ call' = Some([op |-> "render", returned_early |-> r.returned_early,
                        draw |-> r.draw])
    /\ UNCHANGED <<widgetRhi, heap>>
    /\ UNCHANGED Idle

UnloadMesh ==
    /\ LET u == unload_mesh(viewer, gpu) IN
       /\ viewer' = u.viewer
       /\ gpu' = u.gpu
    /\ call' = Some([op |-> "unload_mesh"])
    /\ UNCHANGED <<widgetRhi, heap>>
    /\ UNCHANGED Idle

LoadMesh ==
    \E data \in LoadInputs :
        /\ heap < MaxLoads
        /\ LET r == load_mesh(viewer, gpu, heap, data) IN
           /\ viewer' = r.viewer
           /\ gpu' = r.gpu
           /\ heap' = r.heap
           /\ call' = Some([op |-> "load_mesh", data |-> data,
                            raised |-> r.raised, live |-> r.live,
                            prev_mesh |-> viewer._mesh_data,
                            prev_vbuf |-> viewer._mesh_vbuf,
                            prev_ibuf |-> viewer._mesh_ibuf])
        /\ UNCHANGED widgetRhi
        /\ UNCHANGED Idle

Next == RhiChange \/ Initialize \/ Render \/ UnloadMesh \/ LoadMesh
Spec == Init /\ [][Next]_vars

\* ------------------------------------------------------------------------
\* Claims about the viewer (checked under Spec)
\* ------------------------------------------------------------------------
Called(op) == call # None /\ call[1].op = op
Reloaded ==
    Called("load_mesh") /\ call[1].raised = None /\ call[1].prev_mesh # None

\* C4: when load_mesh(data) returns on a viewer that already holds a mesh,
\* the viewer holds exactly one ProcessedMeshData, built from the new data;
\* the GPU vertex and index buffers derived from the previous mesh have been
\* destroyed and their references cleared; and at no point of the call do
\* two ProcessedMeshData objects belong to the viewer.
C4_ReloadReplacesMesh ==
    Reloaded =>
        /\ viewer._mesh_data # None
        /\ viewer._mesh_data[1].raw_data = call[1].data.mesh[1]
        /\ viewer._mesh_data[1].id # call[1].prev_mesh[1].id
        /\ LiveMeshes(viewer) = {viewer._mesh_data[1].id}
        /\ \A b \in 1..Len(gpu) :
              gpu[b].mesh = call[1].prev_mesh[1].id => gpu[b].destroyed
        /\ viewer._mesh_vbuf = None /\ viewer._mesh_ibuf = None
        /\ \A k \in 1..Len(call[1].live) : Cardinality(call[1].live[k]) <= 1

C4_Witness ==
    /\ Reloaded
    /\ call[1].prev_vbuf # None /\ call[1].prev_ibuf # None
    /\ gpu[call[1].prev_vbuf[1]].destroyed /\ gpu[call[1].prev_ibuf[1]].destroyed
    /\ viewer._mesh_data[1].raw_data # call[1].prev_mesh[1].raw_data

\* ------------------------------------------------------------------------
\* grid(size, steps)                                 gui/utils/rendering.py
\* ------------------------------------------------------------------------
\* Bounds on the arguments the model calls grid with
MaxGridSize == 5
MaxGridSteps == 10

\* Coordinates are kept as numerators over GridDenominator(steps), the
\* divisor np.linspace uses for its step
GridDenominator(steps) == IF steps > 1 THEN steps - 1 ELSE 1

\* np.linspace(-size, size, steps)
linspace(size, steps) ==
    [k \in 1..steps |->
        -size * GridDenominator(steps)
        + (IF steps > 1 THEN 2 * size * (k - 1) ELSE 0)]

\* np.repeat(a, 2)
repeat2(a) == [j \in 1..(2 * Len(a)) |-> a[(j + 1) \div 2]]

\* np.tile(pair, reps)
tile(pair, reps) ==
    [j \in 1..(Len(pair) * reps) |-> pair[((j - 1) % Len(pair)) + 1]]

\* np.zeros(n)
zeros(n) == [j \in 1..n |-> 0]

\* np.dstack([a, b, c]) of three 1-d arrays of length N: shape (1, N, 3)
dstack(a, b, c) == <<[j \in 1..Len(a) |-> <<a[j], b[j], c[j]>>]>>

\* np.concatenate([x, y]): along axis 0
concatenate(x, y) == x \o y

grid(size, steps) ==
    LET u == repeat2(linspace(size, steps))
        v == tile(<<-size * GridDenominator(steps),
                    size * GridDenominator(steps)>>, steps)
        w == zeros(steps * 2)
    IN  concatenate(dstack(u, w, v), dstack(v, w, u))

\* The vertices GRID_VERTEX_DATA walks through, in order:
\* for grid_line in grid(...) for grid_vertex in grid_line
GridVertices(g) == Flatten(g)

InitGrid ==
    /\ call \in {Some([op |-> "grid", size |-> size, steps |-> steps,
                       ret |-> None]) :
                     size \in 0..MaxGridSize, steps \in 1..MaxGridSteps}
    /\ mesh = None
    /\ gltf = None
    /\ processed = None
    /\ reprocessed = None
    /\ camera = CameraIdle
    /\ lastOp = None
    /\ prevCamera = None
    /\ viewer = ViewerIdle
    /\ gpu = <<>>
    /\ widgetRhi = 0
    /\ heap = 0
    /\ disk = None

\* ret = grid(size, steps)
Grid ==
    /\ call[1].ret = None
    /\ call' = Some([call[1] EXCEPT
                        !.ret = Some(grid(call[1].size, call[1].steps))])
    /\ UNCHANGED <<mesh, gltf, processed, reprocessed, camera, lastOp,
                   prevCamera, viewer, gpu, widgetRhi, heap, disk>>

NextGrid == Grid
SpecGrid == InitGrid /\ [][NextGrid]_vars

\* ------------------------------------------------------------------------
\* Claims about grid (checked under SpecGrid)
\* ------------------------------------------------------------------------
GridReturned == Called("grid") /\ call[1].ret # None
\* ndarray.shape of a 3-d array with no empty axis
Shape(a) == <<Len(a), Len(a[1]), Len(a[1][1])>>

\* C12: grid(size, steps) returns an array of shape (2*steps, 2, 3), 2*steps
\* segments of two 3D endpoints each, with every Y coordinate 0 and every X
\* and Z coordinate within [-size, size].
C12_GridShape ==
    GridReturned =>
        LET g == call[1].ret[1]
            d == GridDenominator(call[1].steps)
        IN  /\ Shape(g) = <<2 * call[1].steps, 2, 3>>
            /\ \A i \in 1..Len(g) : \A j \in 1..Len(g[i]) :
                  /\ g[i][j][2] = 0
                  /\ Abs(g[i][j][1]) <= call[1].size * d
                  /\ Abs(g[i][j][3]) <= call[1].size * d

\* ------------------------------------------------------------------------
\* Further claims about convert (checked under SpecConvert)
\* ------------------------------------------------------------------------
MeshFields ==
    {"position", "normal", "uv", "face", "vertex_bone", "vertex_weight",
     "bone_name", "bone_parent", "bone_matrix"}

\* C11: after convert(mesh), whether it returned or raised, every field of
\* the mesh is what it was on entry, the per-vertex joint and weight lists
\* shorter than 4 that were padded for the output included.
C11_ConvertLeavesMeshUnchanged ==
    Called("convert") =>
        /\ \A f \in MeshFields : mesh[f] = call[1].mesh[f]
        /\ mesh = call[1].mesh

C11_Witness ==
    /\ Called("convert") /\ mesh.has_bones
    /\ call[1].binary_data # None
    /\ Len(call[1].mesh.vertex_bone) = 2
    /\ Len(call[1].mesh.vertex_bone[1]) < 4
    /\ Len(call[1].mesh.vertex_weight[2]) < 4
    /\ Len(joint_buffer(call[1].mesh)) = 8
    /\ mesh.vertex_bone = call[1].mesh.vertex_bone

\* The bytes of the blob a bufferView covers
ViewBytes(blob, view) ==
    SubSeq(blob, view.byteOffset + 1, view.byteOffset + view.byteLength)

\* The packed sections of a mesh in the order of the blob, absent ones skipped
RECURSIVE NonEmpty(_)
NonEmpty(seqs) ==
    IF seqs = <<>> THEN <<>>
    ELSE (IF Head(seqs) = <<>> THEN <<>> ELSE <<Head(seqs)>>)
         \o NonEmpty(Tail(seqs))
PresentSections(m) ==
    NonEmpty(<<PackF(Flatten(m.position)),
               IF m.has_normals THEN PackF(Flatten(m.normal)) ELSE <<>>,
               IF m.has_uvs THEN PackF(Flatten(m.uv)) ELSE <<>>,
               PackH(Flatten(m.face)),
               PackB(joint_buffer(m)),
               PackF(weight_buffer(m)),
               PackF(inverse_bind_matrices(m))>>)

\* C13: the bufferViews of a document convert returns are the sections
\* positions, normals, UVs, indices, joints, weights, inverse-bind matrices
\* in that order with absent sections skipped; the first has byteOffset 0,
\* each later one starts where the previous one ends, and the last one ends
\* at byteLength of the single buffer, which is the length of the blob in
\* the data URI.
C13_ViewsContiguousInOrder ==
    ConvertOk =>
        LET views == doc.bufferViews
            blob  == B64Decode(doc.buffers[1].uri.payload)
        IN  /\ Len(doc.buffers) = 1
            /\ doc.buffers[1].byteLength = Len(blob)
            /\ Len(views) = Len(PresentSections(mesh))
            /\ views[1].byteOffset = 0
            /\ \A k \in 2..Len(views) :
                  views[k].byteOffset
                      = views[k - 1].byteOffset + views[k - 1].byteLength
            /\ views[Len(views)].byteOffset + views[Len(views)].byteLength
                  = doc.buffers[1].byteLength
            /\ \A k \in 1..Len(views) :
                  /\ views[k].buffer = 0
                  /\ ViewBytes(blob, views[k]) = PresentSections(mesh)[k]

C13_Witness ==
    /\ ConvertOk /\ mesh.has_normals /\ mesh.has_uvs
    /\ Len(mesh.position) = 2 /\ Len(mesh.face) = 1
    /\ Len(doc.bufferViews) = 4
    /\ doc.bufferViews[3].byteOffset = 48
    /\ doc.bufferViews[4].byteOffset = 64

\* The layout convert has computed when it stops: the bufferViews and
\* accessors of gltf_data, present once the blob is complete
LayoutComputed == Called("convert") /\ call[1].binary_data # None
layout == call[1].gltf_data

\* C14: in the buffer layout convert computes, every section's byte offset
\* is a multiple of the component size of the accessor that reads it (4 for
\* the float sections, 2 for the unsigned-short indices), for every vertex
\* count, face count and combination of present channels.
C14_SectionOffsetsAligned ==
    LayoutComputed =>
        \A a \in 1..Len(layout.accessors) :
            LET acc  == layout.accessors[a]
                view == layout.bufferViews[acc.bufferView + 1]
            IN  view.byteOffset % ComponentSize(acc.componentType) = 0

\* convert got past its input check and its struct.pack calls
Exportable == Converted /\ ~InvalidMesh(mesh) /\ ~PackRaises(mesh)

\* Accessor number a (0-based) of document d has the given component and
\* element type and reads, through its bufferView, exactly the given bytes
Reads(d, a, ctype, type, bytes) ==
    LET acc  == d.accessors[a + 1]
        blob == B64Decode(d.buffers[1].uri.payload)
    IN  /\ acc.componentType = ctype
        /\ acc.type = type
        /\ ViewBytes(blob, d.bufferViews[acc.bufferView + 1]) = bytes

\* The attribute is there exactly when its section is, and then reads it
MapsWhenPresent(d, name, present, ctype, type, bytes) ==
    LET attrs == d.meshes[1].primitives[1].attributes IN
    /\ (name \in DOMAIN attrs) <=> present
    /\ present => Reads(d, attrs[name], ctype, type, bytes)

\* C15: for every combination of has_normals, has_uvs and has_bones convert
\* emits as many accessors as bufferViews, accessor k reads bufferView k, and
\* the primitive maps POSITION, NORMAL, TEXCOORD_0, JOINTS_0, WEIGHTS_0 and
\* indices each to the accessor of its own section (float VEC3, float VEC3,
\* float VEC2, unsigned byte VEC4, float VEC4, unsigned short SCALAR); an
\* absent section gets no bufferView, no accessor and no attribute.
C15_AccessorPerSection ==
    Exportable =>
        /\ ConvertOk
        /\ Len(doc.accessors) = Len(doc.bufferViews)
        /\ Len(doc.accessors) = Len(PresentSections(mesh))
        /\ \A k \in 1..Len(doc.accessors) :
              doc.accessors[k].bufferView = k - 1
        /\ MapsWhenPresent(doc, "POSITION", TRUE, FLOAT, "VEC3",
                           PackF(Flatten(mesh.position)))
        /\ MapsWhenPresent(doc, "NORMAL",
                           mesh.has_normals /\ mesh.normal # <<>>,
                           FLOAT, "VEC3", PackF(Flatten(mesh.normal)))
        /\ MapsWhenPresent(doc, "TEXCOORD_0", mesh.has_uvs /\ mesh.uv # <<>>,
                           FLOAT, "VEC2", PackF(Flatten(mesh.uv)))
        /\ MapsWhenPresent(doc, "JOINTS_0", mesh.has_bones,
                           UNSIGNED_BYTE, "VEC4", PackB(joint_buffer(mesh)))
        /\ MapsWhenPresent(doc, "WEIGHTS_0", mesh.has_bones,
                           FLOAT, "VEC4", PackF(weight_buffer(mesh)))
        /\ Reads(doc, doc.meshes[1].primitives[1].indices, UNSIGNED_SHORT,
                 "SCALAR", PackH(Flatten(mesh.face)))

\* The bone indices 0..B-1 that are children of node i in document d
ChildrenOf(d, i) ==
    IF "children" \in DOMAIN d.nodes[i + 1]
    THEN {d.nodes[i + 1].children[k] :
             k \in 1..Len(d.nodes[i + 1].children)}
    ELSE {}

\* C16: for a mesh with B bones convert emits bone nodes 0..B-1 in bone
\* order followed by the mesh node at index B; node i's children are exactly
\* the j with bone_parent[j] = i (the entry omitted when there are none), so
\* each non-root bone is the child of exactly one node and root bones of
\* none; the scene root list is [B].  Without bones the node list is the
\* single mesh node, it has no skin, and the scene root list is [0].
C16_NodeHierarchy ==
    Exportable =>
        /\ ConvertOk
        /\ mesh.has_bones =>
              LET B == Len(mesh.bone_name) IN
              /\ Len(doc.nodes) = B + 1
              /\ \A i \in 0..(B - 1) :
                    /\ doc.nodes[i + 1].name = mesh.bone_name[i + 1]
                    /\ ChildrenOf(doc, i)
                          = {j \in 0..(B - 1) : mesh.bone_parent[j + 1] = i}
                    /\ "children" \in DOMAIN doc.nodes[i + 1]
                          => doc.nodes[i + 1].children # <<>>
              /\ \A j \in 0..(B - 1) :
                    Cardinality({i \in 0..(B - 1) : j \in ChildrenOf(doc, i)})
                        = IF mesh.bone_parent[j + 1] = -1 THEN 0 ELSE 1
              /\ doc.nodes[B + 1].mesh = 0
              /\ doc.scenes[1].nodes = <<B>>
        /\ ~mesh.has_bones =>
              /\ Len(doc.nodes) = 1
              /\ doc.nodes[1].mesh = 0
              /\ "skin" \notin DOMAIN doc.nodes[1]
              /\ doc.scenes[1].nodes = <<0>>

\* The first 4 entries of a list, padded to 4 with fill
FirstFourPadded(list, fill) ==
    [k \in 1..4 |-> IF k <= Len(list) THEN list[k] ELSE fill]

\* The joints and weights C17 gives vertex i (1-based) of mesh m
ClaimedJoints(m, i) ==
    IF i <= Len(m.vertex_bone) THEN FirstFourPadded(m.vertex_bone[i], 0)
    ELSE <<0, 0, 0, 0>>
ClaimedWeights(m, i) ==
    IF i <= Len(m.vertex_bone) /\ i <= Len(m.vertex_weight)
    THEN FirstFourPadded(m.vertex_weight[i], 0)
    ELSE <<1, 0, 0, 0>>

\* The joint and weight sections of a document hold the claimed values
SkinSectionsAsClaimed(d, m) ==
    LET attrs == d.meshes[1].primitives[1].attributes
        N     == Len(m.position)
    IN  /\ "JOINTS_0" \in DOMAIN attrs /\ "WEIGHTS_0" \in DOMAIN attrs
        /\ d.accessors[attrs["JOINTS_0"] + 1].count = N
        /\ d.accessors[attrs["WEIGHTS_0"] + 1].count = N
        /\ Reads(d, attrs["JOINTS_0"], UNSIGNED_BYTE, "VEC4",
                 Flatten([i \in 1..N |-> ClaimedJoints(m, i)]))
        /\ Reads(d, attrs["WEIGHTS_0"], FLOAT, "VEC4",
                 PackF(Flatten([i \in 1..N |-> ClaimedWeights(m, i)])))

\* C17: for a mesh with bones and N positions, convert's joint and weight
\* sections hold exactly 4 values per vertex for all N vertices: vertex i
\* gets the first 4 entries of vertex_bone[i] padded with joint 0 and the
\* first 4 entries of vertex_weight[i] padded with weight 0.0; a vertex with
\* no vertex_bone entry gets joints (0,0,0,0) and weights (1.0,0,0,0).
C17_FourInfluencesPerVertex ==
    Exportable /\ mesh.has_bones =>
        ConvertOk /\ SkinSectionsAsClaimed(doc, mesh)

\* 4x4 matrix product, and the determinant of the matrices of the model's
\* inputs (lower triangular: the product of the diagonal)
MatMul(a, b) ==
    [r \in 1..4 |-> [c \in 1..4 |->
        a[r][1] * b[1][c] + a[r][2] * b[2][c]
        + a[r][3] * b[3][c] + a[r][4] * b[4][c]]]
Det(a) == a[1][1] * a[2][2] * a[3][3] * a[4][4]

\* The matrix C18 puts at bone k: the inverse of the bind matrix, or the
\* identity when the bind matrix has none
ClaimedInverseBind(a) ==
    IF Det(a) = 0 THEN Eye4
    ELSE Translation(<<-a[4][1], -a[4][2], -a[4][3]>>)

\* C18: for a mesh with B bone matrices convert emits exactly B inverse-bind
\* matrices of 16 floats in bone order; a non-invertible bind matrix is
\* replaced by the 4x4 identity at its position, the other matrices are
\* unaffected, and the failure is never raised to the caller.
C18_InverseBindMatrices ==
    Exportable /\ mesh.has_bones /\ mesh.bone_matrix # <<>> =>
        /\ gltf[1].status # "LinAlgError"
        /\ ConvertOk
        /\ \A k \in 1..Len(mesh.bone_matrix) :
              Det(mesh.bone_matrix[k]) # 0 =>
                  MatMul(mesh.bone_matrix[k],
                         ClaimedInverseBind(mesh.bone_matrix[k])) = Eye4
        /\ LET B   == Len(mesh.bone_matrix)
               ibm == doc.skins[1].inverseBindMatrices
           IN  /\ doc.accessors[ibm + 1].count = B
               /\ Reads(doc, ibm, FLOAT, "MAT4",
                        PackF(Flatten([k \in 1..B |->
                            Flatten(ClaimedInverseBind(mesh.bone_matrix[k]))])))

\* C19: the position accessor's min and max are the componentwise minimum
\* and maximum over all vertices: for every vertex v and axis k,
\* min[k] <= v[k] <= max[k], and each bound is attained by some vertex.
C19_PositionBounds ==
    ConvertOk =>
        LET acc == doc.accessors[
                       doc.meshes[1].primitives[1].attributes["POSITION"] + 1]
            V   == 1..Len(mesh.position)
        IN  /\ Len(acc.min) = 3 /\ Len(acc.max) = 3
            /\ \A k \in 1..3 :
                  /\ \A v \in V : acc.min[k] <= mesh.position[v][k]
                                   /\ mesh.position[v][k] <= acc.max[k]
                  /\ \E v \in V : mesh.position[v][k] = acc.min[k]
                  /\ \E v \in V : mesh.position[v][k] = acc.max[k]

C19_Witness ==
    /\ ConvertOk /\ Len(mesh.position) = 2
    /\ mesh.position[1] = <<1, 0, -1>> /\ mesh.position[2] = <<-2, 3, 0>>
    /\ doc.accessors[1].min = <<-2, 0, -1>>
    /\ doc.accessors[1].max = <<1, 3, 0>>

\* ------------------------------------------------------------------------
\* Further claims about the camera (checked under SpecCamera)
\* ------------------------------------------------------------------------
\* C20: orbit(dx, dy) sets perspective to true, decreases yaw by dx*0.5 and
\* sets pitch to clamp(pitch - dy*0.5, -89, 89), so after any orbit the
\* pitch lies in [-89, 89] whatever it was before (the +-90 a TOP snap view
\* leaves included); dist, roll and position are unchanged.  Angles are in
\* half degrees, so dx*0.5 degrees is dx units.
C20_OrbitClampsPitch ==
    Did("orbit") =>
        /\ camera.perspective = TRUE
        /\ camera.yaw = before.yaw - lastOp[1].dx
        /\ camera.pitch = Clamp(before.pitch - lastOp[1].dy,
                                -89 * AngleScale, 89 * AngleScale)
        /\ -89 * AngleScale <= camera.pitch
        /\ camera.pitch <= 89 * AngleScale
        /\ camera.dist = before.dist
        /\ camera.roll = before.roll
        /\ camera._pos = before._pos

C20_Witness ==
    /\ Did("orbit")
    /\ before.pitch = -90 * AngleScale /\ ~before.perspective
    /\ before.dist # 5 /\ before._pos # CameraInit._pos
    /\ camera.pitch = -89 * AngleScale /\ camera.perspective

\* C21: in any sequence of camera operations perspective changes from true
\* to false only in an orthogonal() step, an orbit() leaves it true (so the
\* first orbit after an orthogonal() sets it back), and pan, dolly, focus,
\* move and set_aspect_ratio never change it.
C21_PerspectiveSwitches ==
    lastOp # None =>
        /\ before.perspective /\ ~camera.perspective
              => lastOp[1].op = "orthogonal"
        /\ lastOp[1].op = "orbit" => camera.perspective
        /\ lastOp[1].op \in {"pan", "dolly", "focus", "move", "set_aspect_ratio"}
              => camera.perspective = before.perspective

C21_Witness ==
    /\ Did("orbit") /\ ~before.perspective /\ camera.perspective
    /\ before._pos # CameraInit._pos /\ before._pos[3] = -1 * PosScale

\* C22: after focus(point), from any camera state, the position is the given
\* point when it is a list or tuple of at least 3 components and the origin
\* otherwise, and dist is 0; yaw, pitch, roll and perspective are unchanged.
C22_FocusZeroesDist ==
    Did("focus") =>
        LET point == lastOp[1].point IN
        /\ Len(point) >= 3 =>
              camera._pos = <<point[1] * PosScale, point[2] * PosScale,
                              point[3] * PosScale, 1>>
        /\ Len(point) < 3 => camera._pos = <<0, 0, 0, 1>>
        /\ camera.dist = 0
        /\ camera.yaw = before.yaw /\ camera.pitch = before.pitch
        /\ camera.roll = before.roll
        /\ camera.perspective = before.perspective

C22_Witness ==
    /\ Did("focus") /\ lastOp[1].point = <<1, 2, 3>>
    /\ before.dist = 1500 /\ before.yaw # 0
    /\ ~before.perspective /\ before._pos # camera._pos
    /\ camera.dist = 0

\* C24: in every camera state reachable from the initial state by dolly,
\* orbit, pan, orthogonal, focus and set_aspect_ratio calls,
\* min_dist <= dist <= max_dist (5 <= dist <= 1500).
C24_DistWithinLimits ==
    /\ camera.min_dist <= camera.dist /\ camera.dist <= camera.max_dist
    /\ 5 <= camera.dist /\ camera.dist <= 1500

\* ------------------------------------------------------------------------
\* Claims about pan (checked under SpecPan)
\* ------------------------------------------------------------------------
\* The displacement of the last operation, x, y, z in units of 1/PosScale
Displacement == [k \in 1..3 |-> camera._pos[k] - before._pos[k]]

\* The screen-space delta (a, b, 0) in units of 1/PanSpeedScale, carried
\* through the transpose of Rx(pitch) Ry(yaw), written out (roll is 0)
RotatedDelta(c, a, b) ==
    LET sp == SinT(c.pitch) cp == CosT(c.pitch)
        sy == SinT(c.yaw)   cy == CosT(c.yaw)
    IN  <<TrigScale * cy * a + sp * sy * b,
          TrigScale * cp * b,
          TrigScale * sy * a - sp * cy * b>>

\* C23: pan(dx, dy) adds to the position the screen-space delta
\* (-dx*0.01*dist, dy*0.01*dist, 0) transformed by the inverse of the
\* rotation-only matrix, so for fixed dx, dy and orientation the displacement
\* is proportional to dist (with yaw = pitch = roll = 0 it is exactly that
\* delta, and it is zero when dist is 0); pan leaves dist, yaw, pitch, roll
\* and perspective unchanged.
C23_PanScalesWithDist ==
    Did("pan") =>
        LET dx == lastOp[1].dx
            dy == lastOp[1].dy
        IN  /\ before.roll = 0
            /\ Displacement
                  = RotatedDelta(before, -dx * before.dist, dy * before.dist)
            /\ \A k \in 1..3 :
                  Displacement[k]
                      = before.dist * RotatedDelta(before, -dx, dy)[k]
            /\ before.yaw = 0 /\ before.pitch = 0 =>
                  Displacement
                      = <<-dx * before.dist * TrigScale * TrigScale,
                          dy * before.dist * TrigScale * TrigScale, 0>>
            /\ before.dist = 0 => camera._pos = before._pos
            /\ camera.dist = before.dist
            /\ camera.yaw = before.yaw /\ camera.pitch = before.pitch
            /\ camera.roll = before.roll
            /\ camera.perspective = before.perspective

C23_Witness ==
    /\ Did("pan") /\ lastOp[1].dx = -3 /\ lastOp[1].dy = 4
    /\ before.dist = 10 /\ before.yaw = 90 * AngleScale
    /\ before.pitch = -50 * AngleScale
    /\ Displacement[1] # 0 /\ Displacement[2] # 0 /\ Displacement[3] # 0

\* ------------------------------------------------------------------------
\* Claims about the viewer's GPU mesh buffers (checked under Spec)
\* ------------------------------------------------------------------------
\* The buffers self._mesh_vbuf and self._mesh_ibuf refer to
HeldBuffers ==
    {viewer[f][1] : f \in {f \in {"_mesh_vbuf", "_mesh_ibuf"} : viewer[f] # None}}
IndexedDraw == Called("render") /\ call[1].draw # None
draw == call[1].draw[1]

\* C25: in any sequence of load_mesh, unload_mesh and render calls on one
\* viewer, the GPU mesh vertex and index buffers, when present, were
\* uploaded from the ProcessedMeshData the viewer currently holds: a render
\* after load_mesh never draws buffers uploaded from an earlier mesh, and
\* whenever the viewer holds no mesh both buffer references are None.
C25_BuffersFromCurrentMesh ==
    /\ viewer._mesh_data = None =>
          viewer._mesh_vbuf = None /\ viewer._mesh_ibuf = None
    /\ \A b \in HeldBuffers :
          /\ viewer._mesh_data # None
          /\ gpu[b].mesh = viewer._mesh_data[1].id
          /\ ~gpu[b].destroyed
    /\ IndexedDraw =>
          \A b \in {draw.vbuf, draw.ibuf} :
              b # None => gpu[b[1]].mesh = draw.mesh

C25_Witness ==
    /\ IndexedDraw
    /\ draw.vbuf # None /\ draw.ibuf # None
    /\ gpu[draw.vbuf[1]].mesh = draw.mesh
    /\ \E b \in 1..Len(gpu) : gpu[b].mesh # draw.mesh /\ gpu[b].destroyed

\* C26: in any sequence of initialize, render, load_mesh and unload_mesh
\* calls, whenever render issues the indexed mesh draw (mesh data and mesh
\* pipeline both present), the mesh vertex buffer and the mesh index buffer
\* are both non-None at that point.
C26_IndexedDrawHasBuffers ==
    IndexedDraw =>
        /\ draw.vbuf # None /\ draw.ibuf # None
        /\ gpu[draw.vbuf[1]].kind = "vertex"
        /\ gpu[draw.ibuf[1]].kind = "index"

C26_Witness ==
    /\ IndexedDraw
    /\ draw.vbuf = Some(Len(gpu) - 1) /\ draw.ibuf = Some(Len(gpu))
    /\ widgetRhi = MaxRhi

\* C27: if load_mesh fails, either with ValueError because the bytes cannot
\* be decoded or with an exception raised while building the
\* ProcessedMeshData, then afterwards the viewer holds no mesh and no GPU
\* mesh buffers: the previously loaded mesh has already been released and is
\* not retained.
LoadFailed == Called("load_mesh") /\ call[1].raised # None
C27_FailedLoadLeavesNoMesh ==
    LoadFailed =>
        /\ viewer._mesh_data = None
        /\ viewer._mesh_vbuf = None /\ viewer._mesh_ibuf = None
        /\ LiveMeshes(viewer) = {}
        /\ \A b \in {call[1].prev_vbuf, call[1].prev_ibuf} :
              b # None => gpu[b[1]].destroyed
        /\ (call[1].data.kind = "bytes" /\ call[1].data.mesh = None)
              => call[1].raised = Some("ValueError")

C27_Witness ==
    /\ LoadFailed /\ call[1].raised # Some("ValueError")
    /\ call[1].prev_mesh # None
    /\ call[1].prev_vbuf # None /\ call[1].prev_ibuf # None

\* C28: after the widget's RHI changes and initialize runs again with a mesh
\* loaded, the mesh vertex and index buffers bound by the next render were
\* created by the current RHI: buffers created by the previous RHI are never
\* used for drawing.
C28_DrawUsesCurrentRhiBuffers ==
    IndexedDraw =>
        \A b \in {draw.vbuf, draw.ibuf} :
            b # None => gpu[b[1]].rhi = draw.rhi

\* ------------------------------------------------------------------------
\* Claims about the packed index and joint values (checked under SpecConvert)
\* ------------------------------------------------------------------------
\* The unsigned shorts a little-endian section holds
UnpackH(bytes) ==
    [k \in 1..(Len(bytes) \div 2) |-> bytes[2 * k - 1] + 256 * bytes[2 * k]]

\* The bytes accessor number a (0-based) of document d reads from blob
Section(d, blob, a) ==
    ViewBytes(blob, d.bufferViews[d.accessors[a + 1].bufferView + 1])

\* The face indices and the bone indices of mesh m that convert packs
SourceIndices(m) == Flatten(m.face)
SourceJoints(m) ==
    Flatten([i \in 1..Len(m.position) |-> ClaimedJoints(m, i)])
OutOfRange(m) ==
    \/ \E k \in 1..Len(SourceIndices(m)) : SourceIndices(m)[k] \notin 0..65535
    \/ m.has_bones
        /\ \E k \in 1..Len(SourceJoints(m)) : SourceJoints(m)[k] \notin 0..255

\* C29: convert never writes an index or joint value that differs from its
\* source value: every value in the index section equals the source face
\* index and every value in the joint section equals the source bone index,
\* and a face index outside 0..65535 or a bone index outside 0..255 makes
\* convert fail with an error rather than emit a value wrapped modulo 2^16
\* or 2^8.
C29_NoWrappedValues ==
    /\ Called("convert") /\ OutOfRange(call[1].mesh) =>
          /\ gltf[1].status \in {"ValueError", "struct.error"}
          /\ gltf[1].doc = None
          /\ call[1].binary_data = None
    /\ ConvertOk =>
          UnpackH(Section(doc, B64Decode(doc.buffers[1].uri.payload),
                          doc.meshes[1].primitives[1].indices))
              = SourceIndices(call[1].mesh)
    /\ LayoutComputed =>
          LET prim == layout.meshes[1].primitives[1]
              blob == call[1].binary_data[1]
          IN  /\ UnpackH(Section(layout, blob, prim.indices))
                    = SourceIndices(call[1].mesh)
              /\ \A k \in 1..Len(blob) : blob[k] \in 0..255
              /\ call[1].mesh.has_bones =>
                    Section(layout, blob, prim.attributes["JOINTS_0"])
                        = SourceJoints(call[1].mesh)

C29_Witness ==
    /\ Called("convert") /\ gltf[1].status = "struct.error"
    /\ call[1].mesh.has_bones
    /\ \A k \in 1..Len(SourceIndices(call[1].mesh)) :
          SourceIndices(call[1].mesh)[k] \in 0..65535
    /\ \E k \in 1..Len(SourceJoints(call[1].mesh)) :
          SourceJoints(call[1].mesh)[k] = 256

\* ------------------------------------------------------------------------
\* Save As                          gui/widgets/tab_window_ui/mesh_viewer.py
\*                                  gui/widgets/mesh_viewer/tab_window_ui.py
\*                                  _temporary_tools_/run_mesh_viewer.py
\* ------------------------------------------------------------------------
\* A file's contents: what was there before, nothing, or the bytes convert
\* returned (the JSON text of a document)
PreviousContents == [kind |-> "previous", doc |-> None]
Empty == [kind |-> "empty", doc |-> None]
Written(bytes) == [kind |-> "gltf", doc |-> Some(bytes)]

\* open(file_path, "wb"): the file exists afterwards and is empty
open_wb_KeepContents(d) == IF d = None THEN Some(Empty) ELSE d
open_wb(d) == Some(Empty)

\* convert_mesh(mesh.raw_data, target_format) hands the raw mesh to the
\* format's convert; the glTF exporter is the format
convert_mesh(raw_data) == convert(raw_data)

\* _save_as_format(window, target_format) with the viewer v, the file d at
\* the path the dialog returns ("" when the dialog is cancelled): the file
\* afterwards, the warning shown and the exception that escapes
save_as_format(v, d, file_path) ==
    IF v._mesh_data = None
    THEN [disk |-> d, warning |-> Some("No Mesh Loaded"), raised |-> None,
          opened |-> FALSE]
    ELSE IF file_path = ""
    THEN [disk |-> d, warning |-> None, raised |-> None, opened |-> FALSE]
    ELSE LET f == open_wb(d)
             r == convert_mesh(v._mesh_data[1].raw_data)
         IN  IF r.status = "ok"
             THEN [disk |-> Some(Written(r.doc[1])), warning |-> None,
                   raised |-> None, opened |-> TRUE]
             ELSE [disk |-> f, warning |-> None, raised |-> Some(r.status),
                   opened |-> TRUE]

\* The meshes a viewer can hold: those ProcessedMeshData accepts
LoadableMeshes == {m \in MeshDomain : ProcessedMeshData(m).status = "ok"}
FilePaths == {"", "mesh.gltf"}

InitSaveAs ==
    /\ viewer \in {ViewerInit}
                   \cup {[ViewerInit EXCEPT
                             !._mesh_data = Some([id |-> 1, raw_data |-> m])] :
                            m \in LoadableMeshes}
    /\ disk \in {None, Some(PreviousContents)}
    /\ call = None
    /\ gpu = <<>>
    /\ widgetRhi = 0
    /\ heap = 0
    /\ mesh = None
    /\ gltf = None
    /\ processed = None
    /\ reprocessed = None
    /\ camera = CameraIdle
    /\ lastOp = None
    /\ prevCamera = None

SaveAs ==
    \E file_path \in FilePaths :
        /\ call = None
        /\ LET r == save_as_format(viewer, disk, file_path) IN
           /\ disk' = r.disk
           /\ call' = Some([op |-> "save_as", file_path |-> file_path,
                            disk_before |-> disk, warning |-> r.warning,
                            raised |-> r.raised, opened |-> r.opened])
        /\ UNCHANGED <<mesh, gltf, processed, reprocessed, camera, lastOp,
                       prevCamera, viewer, gpu, widgetRhi, heap>>

NextSaveAs == SaveAs
SpecSaveAs == InitSaveAs /\ [][NextSaveAs]_vars

\* C30: in Save As (_save_as_format), when convert_mesh raises for the
\* current mesh, no file is created or truncated at the chosen path: the
\* file at that path is written only with the complete bytes of a
\* successful conversion.
C30_FailedSaveLeavesFileAlone ==
    Called("save_as") =>
        /\ call[1].raised # None => disk = call[1].disk_before
        /\ disk # call[1].disk_before =>
              /\ disk # None /\ disk[1].kind = "gltf"
              /\ disk[1].doc
                    = Some(Document(viewer._mesh_data[1].raw_data))
=============================================================================
